---- MODULE Spec2Model ----
\* Batch enrichment orchestrator of ctOS: BatchProcessor.process_batch, the
\* retry wrapper around OpenAIClient.call_api, the per-batch HTS context cache,
\* and the pass-1 drivers (run_pass_1, resume_pass_1) over the product store.
EXTENDS Integers, Sequences, FiniteSets, TLC

\* ---------------------------------------------------------------- bounds
\* Number of products in the store (item ids 1..NumItems, in table order).
NumItems == 2
\* Number of distinct classification codes products may carry.
NumCodes == 2
\* Number of distinct context values the lookup service may return for a code.
NumVersions == 2
\* Largest batch_size argument tried.
MaxBatchSize == 2
\* The drivers' counters (batch_count, total_failed) saturate at this value.
CountCap == 2

\* Largest number of entries in the HTS reference file.
MaxEntries == 3
\* Largest indent level of an entry.
MaxIndent == 2
\* Longest reference file given to the loader with incomplete entries.
MaxFileEntries == 2
\* Most products of one of two overlapping process_batch invocations.
MaxLookups == 2

\* ------------------------------------------------------ program constants
RETRY_MAX_ATTEMPTS == 3
RETRY_BASE_DELAY == 1
RETRY_EXPONENTIAL_BASE == 2

\* ------------------------------------------------------------ value sets
Items == 1..NumItems
\* Item id 0 stands for an id that is not in the products table.
UnknownItem == 0
\* max_batches = None.
NoMaxBatches == -1
Codes == 1..NumCodes
\* 0 stands for Python's None (no context); k >= 1 is a context dictionary.
NoContext == 0
Contexts == 1..NumVersions
Levels == {"Low", "Medium", "High"}
PassNumbers == {0, 1, 2}

\* The rule file: rule ids 1 and 2 exist, only rule 1 is active. Id 3 is unknown.
AllRules == {1, 2}
ActiveRules == {1}
\* selected_rule_ids; <<>> stands for None or [] (both falsy at line 289).
RuleSelections == {<<>>, <<2, 1>>, <<3>>}

\* selected_item_ids: not given (None) or a list of ids, possibly empty or unknown.
ItemSelections ==
    {[given |-> FALSE, ids |-> {}]} \cup
    {[given |-> TRUE, ids |-> S] : S \in SUBSET (Items \cup {UnknownItem})}

\* Canned provider texts: whether a JSON object can be extracted, whether the
\* object passes the field checks of validate_llm_response, and the raw
\* confidence_level and confidence_score (in hundredths) it carries.
Responses ==
    { [json |-> FALSE, fields |-> FALSE, level |-> "Low",      score |-> 0],
      [json |-> TRUE,  fields |-> FALSE, level |-> "Low",      score |-> 0],
      [json |-> TRUE,  fields |-> TRUE,  level |-> "Low",      score |-> 30],
      [json |-> TRUE,  fields |-> TRUE,  level |-> "High",     score |-> 95],
      [json |-> TRUE,  fields |-> TRUE,  level |-> "VeryHigh", score |-> 150] }
NoResponse == [json |-> FALSE, fields |-> FALSE, level |-> "none", score |-> 0]

\* Provider errors, by the except clause of the retry wrapper that handles them.
RetryableErrors == {"APITimeoutError", "RateLimitError", "APIError5xx"}
FatalErrors == {"AuthenticationError", "BadRequestError", "Exception"}
ProviderErrors == RetryableErrors \cup FatalErrors

\* A row of processing_results: the pass and the rules it was written with.
NoRow == [processed |-> FALSE, pass |-> 0, rules |-> <<>>]
NoResult == [total_processed |-> 0, successful |-> 0, failed |-> 0,
             confidence_distribution |-> [l \in Levels |-> 0], results |-> <<>>,
             pass_number |-> 0]

VARIABLES
    final_hts,        \* products table: item id -> classification code
    processing,       \* processing_results table: item id -> row (NoRow = absent)
    pc,               \* position of the process_batch call
    pass_number,      \* argument of the running process_batch call
    products,         \* list loaded by _load_products
    rules,            \* list loaded by _load_rules (rule ids)
    idx,              \* loop index of the product being processed (1-based)
    results, successful, failed, confidence_distribution,
    hts_context,      \* local: context of the current product
    llm_response,     \* local: text returned by call_api
    attempt,          \* retry wrapper: current attempt number
    last_exception,   \* retry wrapper: last retryable error caught
    api_calls,        \* provider invocations made by the current call_api
    api_sleeps,       \* delays slept by the current call_api, in order
    hts_context_cache, cache_hits, cache_misses,
    item_log,         \* per processed product of this batch: what happened to it
    load_log,         \* what the loading phase of this batch did
    batch_result,     \* value returned by process_batch
    batch_error,      \* error that escaped process_batch, or "None"
    driver,           \* "none", "run_pass_1" or "resume_pass_1"
    dstate,           \* position of the driver
    d_batch_size, max_batches, remaining, batch_count,
    total_successful, total_failed,
    summary,          \* status of the summary the driver returned, or error
    raw_items,        \* entries of the HTS reference file, as parsed from JSON
    hts_items,        \* HTSContextService.hts_items: the loader's result
    hstate,           \* position of the HTS context service
    hierarchy_map,    \* HTSContextService.hierarchy_map: code -> node
    parent_finding_stats, orphaned_codes,
    build_idx,        \* build_hierarchy_map: position of the entry being resolved
    stage_log,        \* per resolved entry: the stage of _find_parent_code that answered
    query,            \* argument of the running get_hts_context call
    current_code, hierarchy_path,
    response,         \* value returned by get_hts_context
    prev_lookup,      \* the previous completed lookup: its code and response
    file_entries,     \* load_hts_json: the list parsed from the JSON file
    lstate,           \* position of the load_hts_json call
    load_result,      \* what load_hts_json returned or raised
    v_parsed,         \* validate_llm_response: its argument
    vstate,           \* position of the validate_llm_response call
    v_validated,      \* what validate_llm_response returned or raised
    cstate,           \* position of the call_openai_api_with_retry call
    outer_attempt,    \* attempt of the wrapper around call_openai_api_with_retry
    inner_attempt,    \* attempt of the wrapper around OpenAIClient.call_api
    provider_log,     \* outcome of each provider invocation of the call, in order
    c_sleeps,         \* delays slept during the call, in order
    c_raised,         \* error raised by call_openai_api_with_retry, or "None"
    same_processor,   \* whether the two invocations run on one BatchProcessor
    p_cache,          \* per BatchProcessor: _hts_context_cache, code -> entry
    p_hits, p_misses, \* per BatchProcessor: _cache_hits, _cache_misses
    t_pc,             \* per invocation: its position
    t_codes,          \* per invocation: the codes of its products, in order
    t_pos,            \* per invocation: index of the product being looked up
    t_reg,            \* per invocation: counter value read by a running += 1
    t_lookups,        \* per invocation: lookups it has performed
    t_own_hits,       \* per invocation: hits that returned a value it fetched
    t_foreign,        \* per invocation: a hit returned what it did not fetch
    t_report,         \* per invocation: total_lookups it computed at the end
    overlapped        \* the two invocations have been running at the same time

batchVars == <<pc, pass_number, products, rules, idx, results, successful, failed,
               confidence_distribution, hts_context, llm_response, attempt,
               last_exception, api_calls, api_sleeps,
               hts_context_cache, cache_hits, cache_misses, item_log,
               load_log, batch_result, batch_error>>
driverVars == <<driver, dstate, d_batch_size, max_batches, remaining, batch_count,
                total_successful, total_failed, summary>>
\* State of the components run on their own.
lvars == <<file_entries, lstate, load_result>>
pvars == <<v_parsed, vstate, v_validated>>
cvars == <<cstate, outer_attempt, inner_attempt, provider_log, c_sleeps, c_raised>>
tvars == <<same_processor, p_cache, p_hits, p_misses, t_pc, t_codes, t_pos, t_reg,
           t_lookups, t_own_hits, t_foreign, t_report, overlapped>>
xvars == <<lvars, pvars, cvars, tvars>>
hvars == <<raw_items, hts_items, hstate, hierarchy_map, parent_finding_stats,
           orphaned_codes, build_idx, stage_log, query, current_code,
           hierarchy_path, response, prev_lookup, xvars>>
vars == <<final_hts, processing, batchVars, driverVars, hvars>>

\* ------------------------------------------------------------- helpers
RECURSIVE SortedSeq(_)
SortedSeq(S) ==
    IF S = {} THEN <<>>
    ELSE LET m == CHOOSE x \in S : \A y \in S : x <= y
         IN <<m>> \o SortedSeq(S \ {m})

Range(s) == {s[i] : i \in 1..Len(s)}

Saturate(n) == IF n > CountCap THEN CountCap ELSE n

\* --------------------------------------------------------- product store
\* Rows of the products table in table order.
ItemSeq == SortedSeq(Items)

\* Mutant: the LIMIT clause is never added.
get_unprocessed_products_NoLimit(proc, limit) ==
    SelectSeq(ItemSeq, LAMBDA i : ~proc[i].processed)

get_unprocessed_products(proc, limit) ==
    LET all == SelectSeq(ItemSeq, LAMBDA i : ~proc[i].processed)
    IN IF limit # 0 /\ limit < Len(all) THEN SubSeq(all, 1, limit) ELSE all

get_products_by_ids(item_ids) ==
    IF item_ids = {} THEN <<>>
    ELSE SelectSeq(ItemSeq, LAMBDA i : i \in item_ids)

unprocessed_count(proc) ==
    NumItems - Cardinality({i \in Items : proc[i].processed})

\* update_processing_results on a product of the table: INSERT OR REPLACE.
UpsertRow(proc, item_id, row) == [proc EXCEPT ![item_id] = row]

\* ------------------------------------------------------------ rule store
get_rules_by_ids(rule_ids) == SelectSeq(rule_ids, LAMBDA r : r \in AllRules)

get_active_rules == SortedSeq(ActiveRules)

\* ------------------------------------------------------- loading phase
\* Whether _load_products reaches the product store at all.
QueriesStore(pn, sel) ==
    \/ pn = 1 /\ (~sel.given \/ sel.ids # {})
    \/ pn >= 2 /\ sel.given /\ sel.ids # {}

\* Mutant: pass 2 without a selection falls back to the unprocessed products.
_load_products_FallbackUnprocessed(proc, bs, pn, sel) ==
    IF ~sel.given \/ (pn >= 2 /\ sel.ids = {})
    THEN get_unprocessed_products(proc, bs)
    ELSE get_products_by_ids(sel.ids)

_load_products(proc, bs, pn, sel) ==
    IF pn = 1
    THEN IF ~sel.given
         THEN get_unprocessed_products(proc, bs)
         ELSE get_products_by_ids(sel.ids)
    ELSE IF pn >= 2
         THEN IF ~sel.given \/ sel.ids = {}
              THEN <<>>
              ELSE get_products_by_ids(sel.ids)
         ELSE <<>>

\* Mutant: a failed rule load falls back to the active rules.
_load_rules_ActiveOnError(pn, selected_rule_ids, rule_store_ok) ==
    IF pn = 1 THEN <<>>
    ELSE IF selected_rule_ids # <<>> /\ rule_store_ok
         THEN get_rules_by_ids(selected_rule_ids)
         ELSE get_active_rules

\* rule_store_ok = FALSE: the rule manager raises while loading.
_load_rules(pn, selected_rule_ids, rule_store_ok) ==
    IF pn = 1 THEN <<>>
    ELSE IF ~rule_store_ok THEN <<>>
    ELSE IF selected_rule_ids # <<>>
         THEN get_rules_by_ids(selected_rule_ids)
         ELSE get_active_rules

\* Mutant: the cache survives into the next batch.
ClearCache_Keep(cache) == cache

ClearCache(cache) == [c \in Codes |-> NoContext]

_create_empty_batch_result(pn) ==
    [total_processed |-> 0, successful |-> 0, failed |-> 0,
     confidence_distribution |-> [l \in Levels |-> 0], results |-> <<>>,
     pass_number |-> pn]

\* ------------------------------------------------------- hierarchy cache
\* What the lookup service does when called: returns a dictionary, returns
\* None, or raises.
LookupOutcomes ==
    {[kind |-> "value", v |-> k] : k \in Contexts} \cup
    {[kind |-> "none", v |-> NoContext], [kind |-> "raise", v |-> NoContext]}

\* Mutant: a fetched context is never stored in the cache.
_get_hts_context_NoStore(cache, hits, misses, code, out) ==
    IF cache[code] # NoContext
    THEN [ctx |-> cache[code], cache |-> cache, hits |-> hits + 1,
          misses |-> misses, lookup |-> "hit", outcome |-> "value",
          raised |-> FALSE]
    ELSE [ctx |-> IF out.kind = "value" THEN out.v ELSE NoContext,
          cache |-> cache, hits |-> hits, misses |-> misses + 1,
          lookup |-> "miss", outcome |-> out.kind, raised |-> FALSE]

\* Mutant: an exception of the lookup service is not caught.
_get_hts_context_NoCatch(cache, hits, misses, code, out) ==
    IF cache[code] # NoContext
    THEN [ctx |-> cache[code], cache |-> cache, hits |-> hits + 1,
          misses |-> misses, lookup |-> "hit", outcome |-> "value",
          raised |-> FALSE]
    ELSE [ctx |-> IF out.kind = "value" THEN out.v ELSE NoContext,
          cache |-> IF out.kind = "value"
                    THEN [cache EXCEPT ![code] = out.v] ELSE cache,
          hits |-> hits, misses |-> misses + 1,
          lookup |-> "miss", outcome |-> out.kind,
          raised |-> out.kind = "raise"]

\* _get_hts_context for a product with a non-empty code; out is the lookup
\* service's behaviour should it be called.
_get_hts_context(cache, hits, misses, code, out) ==
    IF cache[code] # NoContext
    THEN [ctx |-> cache[code], cache |-> cache, hits |-> hits + 1,
          misses |-> misses, lookup |-> "hit", outcome |-> "value",
          raised |-> FALSE]
    ELSE [ctx |-> IF out.kind = "value" THEN out.v ELSE NoContext,
          cache |-> IF out.kind = "value"
                    THEN [cache EXCEPT ![code] = out.v] ELSE cache,
          hits |-> hits, misses |-> misses + 1,
          lookup |-> "miss", outcome |-> out.kind,
          \* lines 350-352 catch whatever the lookup service raises
          raised |-> FALSE]

\* ----------------------------------------------------------- retry wrapper
\* Mutant: the exponent is the attempt number.
Delay_OffByOne(k) == RETRY_BASE_DELAY * (RETRY_EXPONENTIAL_BASE ^ k)

Delay(k) == RETRY_BASE_DELAY * (RETRY_EXPONENTIAL_BASE ^ (k - 1))

\* Mutant: every error is retried while attempts remain.
ShouldRetry_Any(err, k) == k < RETRY_MAX_ATTEMPTS

\* Whether the except clause that catches err sleeps and retries on attempt k.
ShouldRetry(err, k) ==
    CASE err = "APITimeoutError" -> k < RETRY_MAX_ATTEMPTS
      [] err = "RateLimitError"  -> k < RETRY_MAX_ATTEMPTS
      [] err = "APIError5xx"     -> k < RETRY_MAX_ATTEMPTS
      [] OTHER                   -> FALSE

\* ---------------------------------------------------------- response parser
ExtractError == "Could not extract valid JSON from LLM response"
ValidationError == "Validation failed"
FlattenError == "'Rule' object has no attribute 'get'"
UpdateError == "Database update failed"
LookupError == "lookup service error"

Clamp(score) == IF score < 0 THEN 0 ELSE IF score > 100 THEN 100 ELSE score

validate_llm_response(parsed) ==
    [level |-> IF parsed.level \in Levels THEN parsed.level ELSE "Medium",
     score |-> Clamp(parsed.score)]

\* flatten_for_database calls r.get(...) on every loaded rule; the rule
\* manager returns Rule models, which have no get attribute.
FlattenRaises(rs) == rs # <<>>

\* Error raised by the steps between call_api and the store update, or "None".
ParseError(resp, rs) ==
    IF ~resp.json THEN ExtractError
    ELSE IF ~resp.fields THEN ValidationError
    ELSE IF FlattenRaises(rs) THEN FlattenError
    ELSE "None"

\* _update_database: the store's outcome turned into update_success.
UpdateOutcomes == {"True", "False", "raise"}
\* Mutant: only an exception counts as a failed update.
_update_database_IgnoreFalse(dbout) == dbout # "raise"
_update_database(dbout) == dbout = "True"

\* ---------------------------------------------------- HTS reference data
\* Codes are strings, written as sequences of characters.
Code7301 == <<"7", "3", "0", "1">>
Code7301_1 == <<"7", "3", "0", "1", ".", "1">>
Code7301_10 == <<"7", "3", "0", "1", ".", "1", "0">>
Code73011 == <<"7", "3", "0", "1", "1">>
Code7302 == <<"7", "3", "0", "2">>
\* Section headers of the file: an empty code and a code shorter than 4.
CodeEmpty == <<>>
Code730 == <<"7", "3", "0">>
RawCodes == {Code7301, Code7301_1, Code7301_10, Code73011, Code7302,
             CodeEmpty, Code730}
\* The loader only warns about a negative indent (loader.py 171-175).
Indents == -2..MaxIndent
RawEntries == [htsno : RawCodes, indent : Indents]

RECURSIVE SeqsUpTo(_, _)
SeqsUpTo(S, n) ==
    IF n = 0 THEN {<<>>}
    ELSE LET shorter == SeqsUpTo(S, n - 1)
         IN shorter \cup {Append(q, x) : q \in {r \in shorter : Len(r) = n - 1}, x \in S}

\* str.startswith
StartsWith(str, prefix) ==
    /\ Len(prefix) <= Len(str)
    /\ SubSeq(str, 1, Len(prefix)) = prefix

\* code.split(".")[0] if "." in code else code[:4]
Chapter(code) ==
    IF \E i \in 1..Len(code) : code[i] = "."
    THEN LET dot == CHOOSE i \in 1..Len(code) :
                       code[i] = "." /\ \A j \in 1..(i - 1) : code[j] # "."
         IN SubSeq(code, 1, dot - 1)
    ELSE SubSeq(code, 1, IF Len(code) < 4 THEN Len(code) ELSE 4)

\* ------------------------------------------------------------ loader
\* _filter_valid_entries: entries with an empty or too short code are dropped.
_filter_valid_entries(hts_data) ==
    SelectSeq(hts_data, LAMBDA item : Len(item.htsno) >= 4)

\* _check_duplicates: whether some code occurs twice.
HasDuplicates(hts_data) ==
    \E i, j \in 1..Len(hts_data) : i < j /\ hts_data[i].htsno = hts_data[j].htsno

\* ------------------------------------------- loader on incomplete entries
\* An entry of the parsed JSON list, field by field: a key may be absent
\* ("missing"), hold a value of another type ("other": null, a number where
\* text is required, a list) or hold a value of the type named. htsno holds
\* the text of the code, and the default "" of item.get("htsno", "") when the
\* key is absent.
IndentTexts == {<<"1">>, <<"x">>}
FileCodes == {CodeEmpty, Code730, Code7301, Code7302}
FileEntries ==
    {[htsno_kind |-> hk, htsno |-> h, indent_kind |-> ik, indent |-> n,
      indent_text |-> t, description_kind |-> dk] :
        hk \in {"missing", "other", "str"}, h \in FileCodes,
        ik \in {"missing", "other", "int", "str"}, n \in {0, 1},
        t \in IndentTexts \cup {<<>>},
        dk \in {"missing", "other", "str"}}
\* One record per JSON entry: fields that the kind makes meaningless are fixed.
WellFormedEntry(e) ==
    /\ (e.htsno_kind # "str") => e.htsno = CodeEmpty
    /\ (e.indent_kind # "int") => e.indent = 0
    /\ (e.indent_kind = "str") <=> (e.indent_text # <<>>)
JsonEntries == {e \in FileEntries : WellFormedEntry(e)}

\* int(text): the value, or ValueError for text that is no number.
IntOfText(t) ==
    IF t = <<"1">> THEN [ok |-> TRUE, value |-> 1] ELSE [ok |-> FALSE, value |-> 0]

\* _filter_valid_entries calls .strip() on the value of htsno: a value that is
\* not text has no strip attribute.
FilterRaises(hts_data) ==
    \E i \in 1..Len(hts_data) : hts_data[i].htsno_kind = "other"

\* _normalize_indent_types: text is converted with int(), 0 when that fails.
_normalize_indent_types(hts_data) ==
    [i \in 1..Len(hts_data) |->
        IF hts_data[i].indent_kind = "str"
        THEN [hts_data[i] EXCEPT !.indent_kind = "int",
                                 !.indent = IntOfText(hts_data[i].indent_text).value,
                                 !.indent_text = <<>>]
        ELSE hts_data[i]]

\* _validate_required_fields: whether ValueError is raised for some entry.
_validate_required_fields(hts_data) ==
    \E i \in 1..Len(hts_data) :
        \/ hts_data[i].htsno_kind = "missing"
        \/ hts_data[i].indent_kind = "missing"
        \/ hts_data[i].description_kind = "missing"
        \/ hts_data[i].htsno_kind # "str"
        \/ hts_data[i].indent_kind # "int"
        \/ hts_data[i].description_kind # "str"

NotLoaded == [error |-> "not called", items |-> <<>>]

\* load_hts_json on a file that exists and parses to a list.
load_hts_json(hts_data) ==
    IF FilterRaises(hts_data)
    THEN [error |-> "AttributeError", items |-> <<>>]
    ELSE LET valid == _normalize_indent_types(_filter_valid_entries(hts_data))
         IN IF _validate_required_fields(valid) \/ HasDuplicates(valid)
            THEN [error |-> "ValueError", items |-> <<>>]
            ELSE [error |-> "None", items |-> valid]

\* The loader is not called in this model instance.
LoaderUnused ==
    /\ file_entries = <<>>
    /\ lstate = "unused"
    /\ load_result = NotLoaded

\* ------------------------------------------------------ hierarchy builder
\* None, as a parent code or a current code.
NoParent == <<>>
NoStats == [prefix_matches |-> 0, fallback_matches |-> 0, failed |-> 0]
Stages == {"root", "prefix", "fallback_prefix", "fallback_chapter", "failed"}

\* Lines 36-40: one node per code, without parent and children.
InitialMap(items) ==
    [c \in {items[i].htsno : i \in 1..Len(items)} |->
        [item |-> items[CHOOSE i \in 1..Len(items) :
                           /\ items[i].htsno = c
                           /\ \A j \in (i + 1)..Len(items) : items[j].htsno # c],
         parent |-> NoParent, children |-> <<>>]]

\* Mutant: the first matching candidate wins.
RECURSIVE BestMatch_First(_, _, _, _, _)
BestMatch_First(items, hts_code, target_indent, k, best_match) ==
    IF k > Len(items) THEN best_match
    ELSE LET candidate_code == items[k].htsno
             better == /\ items[k].indent = target_indent
                       /\ StartsWith(hts_code, candidate_code)
                       /\ Len(candidate_code) > 0
                       /\ best_match = <<>>
         IN BestMatch_First(items, hts_code, target_indent, k + 1,
                            IF better THEN candidate_code ELSE best_match)

\* Lines 115-126: the loop over the candidates, from candidate k on.
\* Mutant: candidates of every indent are accepted by the prefix stage.
RECURSIVE BestMatch_AnyIndent(_, _, _, _, _)
BestMatch_AnyIndent(items, hts_code, target_indent, k, best_match) ==
    IF k > Len(items) THEN best_match
    ELSE LET candidate_code == items[k].htsno
             better == /\ StartsWith(hts_code, candidate_code)
                       /\ Len(candidate_code) > Len(best_match)
         IN BestMatch_AnyIndent(items, hts_code, target_indent, k + 1,
                                IF better THEN candidate_code ELSE best_match)

RECURSIVE BestMatch(_, _, _, _, _)
BestMatch(items, hts_code, target_indent, k, best_match) ==
    IF k > Len(items) THEN best_match
    ELSE LET candidate_code == items[k].htsno
             better == /\ items[k].indent = target_indent
                       /\ StartsWith(hts_code, candidate_code)
                       /\ Len(candidate_code) > Len(best_match)
         IN BestMatch(items, hts_code, target_indent, k + 1,
                      IF better THEN candidate_code ELSE best_match)

\* Mutant: the backward scans accept an entry of the same indent.
RECURSIVE ScanBack_SameIndent(_, _, _, _, _)
ScanBack_SameIndent(items, hts_code, indent_level, i, same_chapter) ==
    IF i < 1 THEN [hit |-> FALSE, code |-> <<>>]
    ELSE IF /\ items[i].indent <= indent_level
            /\ IF same_chapter
               THEN Chapter(hts_code) = Chapter(items[i].htsno)
               ELSE StartsWith(hts_code, items[i].htsno)
         THEN [hit |-> TRUE, code |-> items[i].htsno]
         ELSE ScanBack_SameIndent(items, hts_code, indent_level, i - 1, same_chapter)

\* Mutant: the backward scans take the matching entry nearest to the start.
ScanBack_Forward(items, hts_code, indent_level, i, same_chapter) ==
    LET hits == {j \in 1..i :
                    /\ items[j].indent < indent_level
                    /\ IF same_chapter
                       THEN Chapter(hts_code) = Chapter(items[j].htsno)
                       ELSE StartsWith(hts_code, items[j].htsno)}
    IN IF hits = {} THEN [hit |-> FALSE, code |-> <<>>]
       ELSE [hit |-> TRUE,
             code |-> items[CHOOSE j \in hits : \A h \in hits : j <= h].htsno]

\* Lines 138-148 and 153-173: the backward scans from the entry before k.
RECURSIVE ScanBack(_, _, _, _, _)
ScanBack(items, hts_code, indent_level, i, same_chapter) ==
    IF i < 1 THEN [hit |-> FALSE, code |-> NoParent]
    ELSE IF /\ items[i].indent < indent_level
            /\ IF same_chapter
               THEN Chapter(hts_code) = Chapter(items[i].htsno)
               ELSE StartsWith(hts_code, items[i].htsno)
         THEN [hit |-> TRUE, code |-> items[i].htsno]
         ELSE ScanBack(items, hts_code, indent_level, i - 1, same_chapter)

\* Mutant: the fallback scans start at the end of the list.
_find_parent_code_ScanAll(items, k) ==
    LET hts_code == items[k].htsno
        indent_level == items[k].indent
        best_match == BestMatch(items, hts_code, indent_level - 1, 1, <<>>)
        by_prefix == ScanBack(items, hts_code, indent_level, Len(items), FALSE)
        by_chapter == ScanBack(items, hts_code, indent_level, Len(items), TRUE)
    IN IF indent_level = 0 THEN [parent |-> <<>>, stage |-> "root"]
       ELSE IF best_match # <<>> THEN [parent |-> best_match, stage |-> "prefix"]
       ELSE IF by_prefix.hit
            THEN [parent |-> by_prefix.code, stage |-> "fallback_prefix"]
       ELSE IF by_chapter.hit
            THEN [parent |-> by_chapter.code, stage |-> "fallback_chapter"]
       ELSE [parent |-> <<>>, stage |-> "failed"]

\* Mutant: the same-chapter stage is left out.
_find_parent_code_NoChapter(items, k) ==
    LET hts_code == items[k].htsno
        indent_level == items[k].indent
        best_match == BestMatch(items, hts_code, indent_level - 1, 1, <<>>)
        by_prefix == ScanBack(items, hts_code, indent_level, k - 1, FALSE)
    IN IF indent_level = 0 THEN [parent |-> <<>>, stage |-> "root"]
       ELSE IF best_match # <<>> THEN [parent |-> best_match, stage |-> "prefix"]
       ELSE IF by_prefix.hit
            THEN [parent |-> by_prefix.code, stage |-> "fallback_prefix"]
       ELSE [parent |-> <<>>, stage |-> "failed"]

\* _find_parent_code for the entry at position k: the code returned (NoParent
\* for None) and the stage that returned it.
_find_parent_code(items, k) ==
    LET hts_code == items[k].htsno
        indent_level == items[k].indent
        best_match == BestMatch(items, hts_code, indent_level - 1, 1, NoParent)
        by_prefix == ScanBack(items, hts_code, indent_level, k - 1, FALSE)
        by_chapter == ScanBack(items, hts_code, indent_level, k - 1, TRUE)
    IN IF indent_level = 0 THEN [parent |-> NoParent, stage |-> "root"]
       ELSE IF best_match # NoParent THEN [parent |-> best_match, stage |-> "prefix"]
       ELSE IF by_prefix.hit
            THEN [parent |-> by_prefix.code, stage |-> "fallback_prefix"]
       ELSE IF by_chapter.hit
            THEN [parent |-> by_chapter.code, stage |-> "fallback_chapter"]
       ELSE [parent |-> NoParent, stage |-> "failed"]

\* Mutant: the child is not appended to the parent's children.
SetParent_NoChild(map, hts_code, parent_code) ==
    [map EXCEPT ![hts_code].parent = parent_code]

\* Lines 52-53: the parent pointer and the parent's children list.
SetParent(map, hts_code, parent_code) ==
    [[map EXCEPT ![hts_code].parent = parent_code]
        EXCEPT ![parent_code].children = Append(@, hts_code)]

\* Mutant: a root entry is counted as failed.
CountStage_RootFails(stats, stage) ==
    CASE stage = "prefix" -> [stats EXCEPT !.prefix_matches = @ + 1]
      [] stage \in {"fallback_prefix", "fallback_chapter"} ->
            [stats EXCEPT !.fallback_matches = @ + 1]
      [] OTHER -> [stats EXCEPT !.failed = @ + 1]

\* The counter _find_parent_code increments for a stage.
CountStage(stats, stage) ==
    CASE stage = "prefix" -> [stats EXCEPT !.prefix_matches = @ + 1]
      [] stage \in {"fallback_prefix", "fallback_chapter"} ->
            [stats EXCEPT !.fallback_matches = @ + 1]
      [] stage = "failed" -> [stats EXCEPT !.failed = @ + 1]
      [] OTHER -> stats

\* ------------------------------------------------------- lookup service
EmptyMap == [c \in {} |-> 0]
NoLookup == [found |-> FALSE, hierarchy_path |-> <<>>, error |-> "none"]
\* Mutant: an absent code is answered as found.
NotFound_Found == [found |-> TRUE, hierarchy_path |-> <<>>, error |-> "none"]
NotFound == [found |-> FALSE, hierarchy_path |-> <<>>,
             error |-> "HTS code not found in reference data"]
NoPrev == [code |-> NoParent, response |-> NoLookup]

\* Mutant: the path is not reversed.
Reverse_Identity(q) == q

\* list.reverse()
Reverse(q) == [i \in 1..Len(q) |-> q[Len(q) + 1 - i]]

\* The service of this model instance is not constructed.
HtsUnused ==
    /\ raw_items = <<>>
    /\ hts_items = <<>>
    /\ hstate = "unused"
    /\ hierarchy_map = EmptyMap
    /\ parent_finding_stats = NoStats
    /\ orphaned_codes = <<>>
    /\ build_idx = 0
    /\ stage_log = <<>>
    /\ query = NoParent
    /\ current_code = NoParent
    /\ hierarchy_path = <<>>
    /\ response = NoLookup
    /\ prev_lookup = NoPrev

\* ------------------------------------------- validate_llm_response in full
\* Texts are sequences of characters; " " is whitespace.
Texts == {<<>>, <<" ">>, <<"T">>, <<" ", "T", " ">>}
RECURSIVE LStrip(_)
LStrip(t) == IF t # <<>> /\ Head(t) = " " THEN LStrip(Tail(t)) ELSE t
\* str.strip()
Strip(t) == Reverse(LStrip(Reverse(LStrip(t))))

\* A value of the parsed JSON object: the key is absent ("missing"), the
\* value is text, or it is of another type, falsy (null, 0, [], {}) or truthy
\* (a number, a non-empty list).
TextFields ==
    {[kind |-> k, text |-> <<>>] : k \in {"missing", "falsy", "other"}}
        \cup {[kind |-> "text", text |-> t] : t \in Texts}

\* confidence_score in thousandths, as a number or as numeric text (float()
\* reads both); "bad" is a value float() rejects with ValueError or TypeError,
\* "nan" and "negzero" are the floats nan and -0.0.
RawScores == {-200, -4, 0, 4, 254, 996, 1000, 1004, 1500}
ScoreFields ==
    {[kind |-> k, value |-> 0] : k \in {"missing", "bad", "nan", "negzero"}}
        \cup {[kind |-> "num", value |-> v] : v \in RawScores}

\* confidence_level: a text, "missing" for an absent key, "other" for a value
\* that is no text.
LevelFields == {"Low", "Medium", "High", "VeryHigh", "low", "missing", "other"}

\* customer_name and dimensions: absent key, "", the text "null", null, a text.
NullableFields == {"missing", "empty", "null", "None", "text"}
FeatureFields ==
    {[kind |-> k, product |-> [kind |-> "missing", text |-> <<>>],
      customer_name |-> "missing", dimensions |-> "missing"] :
        k \in {"missing", "other"}}
    \cup {[kind |-> "dict", product |-> pr, customer_name |-> c, dimensions |-> d] :
            pr \in TextFields, c \in NullableFields, d \in {"missing", "text"}}

ParsedResponses ==
    [enhanced_description : TextFields, confidence_score : ScoreFields,
     confidence_level : LevelFields, extracted_features : FeatureFields]

DigitChars == <<"0", "1", "2", "3", "4", "5", "6", "7", "8", "9">>
\* f"{score:.2f}" for a score in thousandths that is no tie.
Format2(t) ==
    LET h == (t + 5) \div 10
    IN <<DigitChars[(h \div 100) + 1], ".", DigitChars[((h \div 10) % 10) + 1],
         DigitChars[(h % 10) + 1]>>

\* 0.0 <= score <= 1.0; every comparison with nan is false, -0.0 equals 0.0.
ScoreInRange(sc) ==
    CASE sc.kind = "nan" -> FALSE
      [] sc.kind = "negzero" -> TRUE
      [] OTHER -> 0 <= sc.value /\ sc.value <= 1000

\* Mutant: only the lower end is clamped.
ClampScore_LowerOnly(sc) == IF sc.value < 0 THEN 0 ELSE sc.value

\* max(0.0, min(1.0, score)): min returns 1.0 for nan.
ClampScore(sc) ==
    IF sc.kind = "nan" THEN 1000
    ELSE IF sc.value > 1000 THEN 1000 ELSE IF sc.value < 0 THEN 0 ELSE sc.value

\* lines 118-129: the normalised confidence_score.
NormalizedScore(sc) ==
    IF ScoreInRange(sc)
    THEN IF sc.kind = "negzero" THEN <<"-", "0", ".", "0", "0">> ELSE Format2(sc.value)
    ELSE Format2(ClampScore(sc))

Falsy(f) == f.kind \in {"missing", "falsy"} \/ (f.kind = "text" /\ f.text = <<>>)

\* lines 151-154: "" , "null" and null become null; an absent key is set to null.
NormalizeNullable(v) == IF v \in {"missing", "empty", "null", "None"} THEN "None" ELSE v

NotValidated == [error |-> "not called"]

\* validate_llm_response: the error raised, or the mapping returned.
ValidateParsed(p) ==
    IF \/ p.enhanced_description.kind = "missing"
       \/ p.confidence_score.kind = "missing"
       \/ p.confidence_level = "missing"
       \/ p.extracted_features.kind = "missing"
    THEN [error |-> "ValueError"]
    ELSE IF p.enhanced_description.kind = "other"
    THEN [error |-> "AttributeError"]
    ELSE LET description_error ==
                 Falsy(p.enhanced_description) \/ Strip(p.enhanced_description.text) = <<>>
             score_error == p.confidence_score.kind = "bad"
             features_error ==
                 \/ p.extracted_features.kind # "dict"
                 \/ Falsy(p.extracted_features.product)
                 \/ /\ p.extracted_features.product.kind = "text"
                    /\ Strip(p.extracted_features.product.text) = <<>>
         IN IF description_error \/ score_error \/ features_error
            THEN [error |-> "ValueError"]
            ELSE [error |-> "None",
                  enhanced_description |-> p.enhanced_description,
                  confidence_score |-> NormalizedScore(p.confidence_score),
                  confidence_level |->
                      IF p.confidence_level \in Levels THEN p.confidence_level
                      ELSE "Medium",
                  extracted_features |->
                      [p.extracted_features EXCEPT
                          !.customer_name = NormalizeNullable(@),
                          !.dimensions = NormalizeNullable(@)]]

NoParsed == [enhanced_description |-> [kind |-> "missing", text |-> <<>>],
             confidence_score |-> [kind |-> "missing", value |-> 0],
             confidence_level |-> "missing",
             extracted_features |-> [kind |-> "missing",
                                     product |-> [kind |-> "missing", text |-> <<>>],
                                     customer_name |-> "missing",
                                     dimensions |-> "missing"]]

\* The response parser is not called on its own in this model instance.
ParserUnused ==
    /\ v_parsed = NoParsed
    /\ vstate = "unused"
    /\ v_validated = NotValidated

\* call_openai_api_with_retry is not called in this model instance.
ConvenienceUnused ==
    /\ cstate = "unused"
    /\ outer_attempt = 0
    /\ inner_attempt = 0
    /\ provider_log = <<>>
    /\ c_sleeps = <<>>
    /\ c_raised = "None"

\* ------------------------------------ two overlapping process_batch calls
Invocations == {1, 2}
Processors == {1, 2}
\* A cache entry: the context and the invocation that fetched it.
NoEntry == [ctx |-> NoContext, by |-> 0]
EmptyCache == [c \in Codes |-> NoEntry]
NoReport == -1

\* Mutant: every invocation runs on the first processor.
Processor_First(same, t) == 1

\* The BatchProcessor an invocation runs on: the one an LLMEnhancementService
\* holds for all its calls, or the fresh one of the convenience function.
Processor(same, t) == IF same THEN 1 ELSE t

\* No second invocation runs in this model instance.
ConcurrentUnused ==
    /\ same_processor = FALSE
    /\ p_cache = [q \in Processors |-> EmptyCache]
    /\ p_hits = [q \in Processors |-> 0]
    /\ p_misses = [q \in Processors |-> 0]
    /\ t_pc = [t \in Invocations |-> "unused"]
    /\ t_codes = [t \in Invocations |-> <<>>]
    /\ t_pos = [t \in Invocations |-> 0]
    /\ t_reg = [t \in Invocations |-> 0]
    /\ t_lookups = [t \in Invocations |-> 0]
    /\ t_own_hits = [t \in Invocations |-> 0]
    /\ t_foreign = [t \in Invocations |-> FALSE]
    /\ t_report = [t \in Invocations |-> NoReport]
    /\ overlapped = FALSE

XUnused == LoaderUnused /\ ParserUnused /\ ConvenienceUnused /\ ConcurrentUnused

\* ------------------------------------------------------------------ Init
\* What the loading phase did: whether the product store and the rule store
\* were called, and the arguments _load_products read: batch_size and the
\* unprocessed products at load time in pass 1 mode A, the selection otherwise.
LoadLog(bs, pn, sel, proc, store, rule_store) ==
    LET modeA == pn = 1 /\ ~sel.given
    IN [store |-> store, rules |-> rule_store,
        batch_size |-> IF modeA THEN bs ELSE 0,
        given |-> sel.given, ids |-> sel.ids,
        unprocessed |-> IF modeA THEN {i \in Items : ~proc[i].processed} ELSE {}]
NoLog == LoadLog(0, 0, [given |-> FALSE, ids |-> {}], [i \in Items |-> NoRow],
                 "none", "none")

BatchInit ==
    \* Codes are interchangeable: the first product's code is called 1.
    /\ final_hts \in {t \in [Items -> Codes] : t[1] = 1}
    /\ processing = [i \in Items |-> NoRow]
    /\ pc = "idle"
    /\ pass_number = 0
    /\ products = <<>>
    /\ rules = <<>>
    /\ idx = 0
    /\ results = <<>>
    /\ successful = 0
    /\ failed = 0
    /\ confidence_distribution = [l \in Levels |-> 0]
    /\ hts_context = NoContext
    /\ llm_response = NoResponse
    /\ attempt = 0
    /\ last_exception = "None"
    /\ api_calls = 0
    /\ api_sleeps = <<>>
    /\ hts_context_cache = [c \in Codes |-> NoContext]
    /\ cache_hits = 0
    /\ cache_misses = 0
    /\ item_log = <<>>
    /\ load_log = NoLog
    /\ batch_result = NoResult
    /\ batch_error = "None"
    /\ driver = "none"
    /\ dstate = "idle"
    /\ d_batch_size = 0
    /\ max_batches = 0
    /\ remaining = 0
    /\ batch_count = 0
    /\ total_successful = 0
    /\ total_failed = 0
    /\ summary = "none"

\* The batch processor over a lookup service that is not modelled further.
Init == BatchInit /\ HtsUnused /\ XUnused

\* ------------------------------------------------------- process_batch
ResetLocals ==
    /\ hts_context' = NoContext
    /\ llm_response' = NoResponse
    /\ attempt' = 0
    /\ last_exception' = "None"
    /\ api_calls' = 0
    /\ api_sleeps' = <<>>

\* Lines 79-101 of process_batch: clear the cache, load products and rules.
BeginBatch(bs, pn, sel, selrules, store_ok, rule_store_ok) ==
    /\ hts_context_cache' = ClearCache(hts_context_cache)
    /\ cache_hits' = 0
    /\ cache_misses' = 0
    /\ pass_number' = pn
    /\ idx' = 1
    /\ results' = <<>>
    /\ successful' = 0
    /\ failed' = 0
    /\ confidence_distribution' = [l \in Levels |-> 0]
    /\ item_log' = <<>>
    /\ ResetLocals
    /\ UNCHANGED <<final_hts, processing>>
    /\ IF QueriesStore(pn, sel) /\ ~store_ok
       THEN /\ pc' = "raised"
            /\ batch_error' = "DatabaseError"
            /\ batch_result' = NoResult
            /\ products' = <<>>
            /\ rules' = <<>>
            /\ load_log' = LoadLog(bs, pn, sel, processing, "raise", "none")
       ELSE LET loaded == _load_products(processing, bs, pn, sel)
            IN /\ products' = loaded
               /\ batch_error' = "None"
               /\ IF loaded = <<>>
                  THEN /\ pc' = "returned"
                       /\ batch_result' = _create_empty_batch_result(pn)
                       /\ rules' = <<>>
                       /\ load_log' =
                            LoadLog(bs, pn, sel, processing,
                                    IF QueriesStore(pn, sel) THEN "ok" ELSE "none",
                                    "none")
                  ELSE /\ pc' = "lookup"
                       /\ batch_result' = NoResult
                       /\ rules' = _load_rules(pn, selrules, rule_store_ok)
                       /\ load_log' =
                            LoadLog(bs, pn, sel, processing, "ok",
                                    IF pn = 1 THEN "none"
                                    ELSE IF rule_store_ok THEN "ok" ELSE "raise")

\* A caller invokes BatchProcessor.process_batch directly.
ProcessBatch ==
    /\ UNCHANGED hvars
    /\ pc = "idle"
    /\ driver = "none"
    /\ \E bs \in 1..MaxBatchSize, pn \in PassNumbers, sel \in ItemSelections,
          selrules \in RuleSelections, store_ok \in BOOLEAN, rule_store_ok \in BOOLEAN :
          BeginBatch(bs, pn, sel, selrules, store_ok, rule_store_ok)
    /\ UNCHANGED driverVars

\* The loop moves on to the next product, or leaves the loop.
Advance ==
    /\ idx' = idx + 1
    /\ pc' = IF idx = Len(products) THEN "assemble" ELSE "lookup"

FailureResult(item_id, msg) ==
    [item_id |-> item_id, success |-> FALSE, confidence_level |-> "none",
     confidence_score |-> 0, error |-> msg]

SuccessResult(item_id, validated) ==
    [item_id |-> item_id, success |-> TRUE, confidence_level |-> validated.level,
     confidence_score |-> validated.score, error |-> "None"]

\* Mutant: the except clause re-raises.
RecordFailure_Reraise(msg) ==
    /\ pc' = "raised"
    /\ UNCHANGED <<failed, results, successful, confidence_distribution, idx>>

\* Mutant: the except clause does not count the failure.
RecordFailure_NoCount(msg) ==
    /\ results' = Append(results, FailureResult(products[idx], msg))
    /\ UNCHANGED <<failed, successful, confidence_distribution>>
    /\ Advance

\* The except clause of the loop (lines 158-167).
RecordFailure(msg) ==
    /\ failed' = failed + 1
    /\ results' = Append(results, FailureResult(products[idx], msg))
    /\ UNCHANGED <<successful, confidence_distribution>>
    /\ Advance

\* item_log: one entry per product whose processing has begun, recording what
\* the collaborators did for it and the exception its try block raised.
LogEntry(item_id, code, r) ==
    [item_id |-> item_id, code |-> code, lookup |-> r.lookup, outcome |-> r.outcome,
     ctx |-> r.ctx, update |-> "none", exception |-> "None"]
SetException(log, e) == [log EXCEPT ![Len(log)].exception = e]
SetUpdate(log, what) == [log EXCEPT ![Len(log)].update = what]

\* Lines 110-115: hierarchy context through the cache, then the prompt.
GetHtsContext ==
    /\ UNCHANGED hvars
    /\ pc = "lookup"
    /\ \E out \in LookupOutcomes :
          LET r == _get_hts_context(hts_context_cache, cache_hits, cache_misses,
                                    final_hts[products[idx]], out)
              entry == LogEntry(products[idx], final_hts[products[idx]], r)
          IN /\ hts_context_cache' = r.cache
             /\ cache_hits' = r.hits
             /\ cache_misses' = r.misses
             /\ IF r.raised
                THEN /\ item_log' = SetException(Append(item_log, entry), LookupError)
                     /\ RecordFailure(LookupError)
                     /\ hts_context' = NoContext
                     /\ attempt' = 0
                ELSE /\ item_log' = Append(item_log, entry)
                     /\ hts_context' = r.ctx
                     /\ pc' = "api"
                     /\ attempt' = 1
                     /\ UNCHANGED <<idx, results, successful, failed,
                                    confidence_distribution>>
    /\ last_exception' = "None"
    /\ api_calls' = 0
    /\ api_sleeps' = <<>>
    /\ llm_response' = NoResponse
    /\ UNCHANGED <<final_hts, processing, pass_number, products, rules, load_log,
                   batch_result, batch_error, driverVars>>

\* One iteration of the retry wrapper's loop around call_api (line 118).
CallApiAttempt ==
    /\ UNCHANGED hvars
    /\ pc = "api"
    /\ \/ \E resp \in Responses :
            \* func returned: the wrapper returns and its locals are gone
            /\ llm_response' = resp
            /\ pc' = "parse"
            /\ attempt' = 0
            /\ last_exception' = "None"
            /\ api_calls' = 0
            /\ api_sleeps' = <<>>
            /\ UNCHANGED <<idx, results, failed, successful,
                           confidence_distribution, item_log>>
       \/ \E err \in ProviderErrors :
            /\ api_calls' = api_calls + 1
            /\ IF ShouldRetry(err, attempt)
               THEN /\ last_exception' = err
                    /\ api_sleeps' = Append(api_sleeps, Delay(attempt))
                    /\ attempt' = attempt + 1
                    /\ UNCHANGED <<pc, llm_response, idx, results, failed,
                                   successful, confidence_distribution, item_log>>
               ELSE /\ last_exception' =
                         IF err = "Exception" THEN last_exception ELSE err
                    /\ item_log' = SetException(item_log, err)
                    /\ RecordFailure(err)
                    /\ UNCHANGED <<attempt, api_sleeps, llm_response>>
    /\ UNCHANGED <<final_hts, processing, pass_number, products, rules, hts_context,
                   hts_context_cache, cache_hits, cache_misses, load_log,
                   batch_result, batch_error, driverVars>>

\* Mutant: the row is written before the response is parsed.
StoreAfter_WriteFirst(proc, item_id, row, perr, dbout) ==
    IF perr # "None" \/ dbout = "True" THEN UpsertRow(proc, item_id, row) ELSE proc

\* The processing_results table after the try block of one product:
\* update_processing_results (line 133) is reached only when extraction,
\* validation and flattening raised nothing, and writes when it returns True.
StoreAfter(proc, item_id, row, perr, dbout) ==
    IF perr = "None" /\ dbout = "True" THEN UpsertRow(proc, item_id, row) ELSE proc

\* Lines 121-156: extract, validate, flatten, persist, record the outcome.
ParseAndPersist ==
    /\ UNCHANGED hvars
    /\ pc = "parse"
    /\ LET perr == ParseError(llm_response, rules)
           validated == validate_llm_response(llm_response)
           item_id == products[idx]
           row == [processed |-> TRUE, pass |-> pass_number, rules |-> rules]
       IN IF perr # "None"
          THEN /\ item_log' = SetException(item_log, perr)
               /\ RecordFailure(perr)
               /\ processing' = StoreAfter(processing, item_id, row, perr, "none")
          ELSE \E dbout \in UpdateOutcomes :
                 /\ processing' = StoreAfter(processing, item_id, row, perr, dbout)
                 /\ IF _update_database(dbout)
                    THEN /\ item_log' = SetUpdate(item_log, dbout)
                         /\ successful' = successful + 1
                         /\ confidence_distribution' =
                              [confidence_distribution EXCEPT
                                 ![validated.level] = @ + 1]
                         /\ results' = Append(results, SuccessResult(item_id, validated))
                         /\ UNCHANGED failed
                         /\ Advance
                    ELSE /\ item_log' =
                              SetException(SetUpdate(item_log, dbout), UpdateError)
                         /\ RecordFailure(UpdateError)
    /\ ResetLocals
    /\ UNCHANGED <<final_hts, pass_number, products, rules, hts_context_cache,
                   cache_hits, cache_misses, load_log, batch_result, batch_error,
                   driverVars>>

\* Lines 169-207: the BatchResult is assembled and returned.
FinishBatch ==
    /\ UNCHANGED hvars
    /\ pc = "assemble"
    /\ batch_result' =
         [total_processed |-> Len(products), successful |-> successful,
          failed |-> failed, confidence_distribution |-> confidence_distribution,
          results |-> results, pass_number |-> pass_number]
    /\ pc' = "returned"
    /\ ResetLocals
    /\ UNCHANGED <<final_hts, processing, pass_number, products, rules, idx, results,
                   successful, failed, confidence_distribution, hts_context_cache,
                   cache_hits, cache_misses, item_log, load_log, batch_error,
                   driverVars>>

\* The direct caller takes the result (or the error); the processor is idle again.
ForgetBatch ==
    /\ pc' = "idle"
    /\ pass_number' = 0
    /\ products' = <<>>
    /\ rules' = <<>>
    /\ idx' = 0
    /\ results' = <<>>
    /\ successful' = 0
    /\ failed' = 0
    /\ confidence_distribution' = [l \in Levels |-> 0]
    /\ item_log' = <<>>
    /\ load_log' = NoLog
    /\ batch_result' = NoResult
    /\ batch_error' = "None"
    /\ ResetLocals
    /\ UNCHANGED <<hts_context_cache, cache_hits, cache_misses>>

ReturnToCaller ==
    /\ UNCHANGED hvars
    /\ pc \in {"returned", "raised"}
    /\ driver = "none"
    /\ ForgetBatch
    /\ UNCHANGED <<final_hts, processing, driverVars>>

\* ------------------------------------------- run_pass_1 and resume_pass_1
\* max_batches: None, or an integer. `if max_batches and ...` is false for both
\* None and 0.
MaxBatchesChoices == {NoMaxBatches} \cup (0..CountCap)
Truthy(n) == n # NoMaxBatches /\ n # 0

SummaryStatus(rem) == IF rem = 0 THEN "complete" ELSE "partial"

\* LLMEnhancementService.run_pass_1, lines 152-179: statistics, early return.
RunPass1Start ==
    /\ UNCHANGED hvars
    /\ pc = "idle"
    /\ driver = "none"
    /\ driver' = "run_pass_1"
    /\ \E bs \in 1..MaxBatchSize, mb \in MaxBatchesChoices :
          /\ d_batch_size' = bs
          /\ max_batches' = mb
    /\ remaining' = unprocessed_count(processing)
    /\ batch_count' = 0
    /\ total_successful' = 0
    /\ total_failed' = 0
    /\ IF unprocessed_count(processing) = 0
       THEN /\ dstate' = "ended"
            /\ summary' = "complete"
       ELSE /\ dstate' = "loop"
            /\ summary' = "none"
    /\ UNCHANGED <<final_hts, processing, batchVars>>

\* Lines 181-191: the while test, the max_batches test, the next process_batch.
RunPass1Loop ==
    /\ UNCHANGED hvars
    /\ driver = "run_pass_1"
    /\ dstate = "loop"
    /\ IF remaining = 0 \/ (Truthy(max_batches) /\ batch_count >= max_batches)
       THEN /\ dstate' = "ended"
            /\ summary' = SummaryStatus(remaining)
            /\ UNCHANGED <<batch_count, final_hts, processing, batchVars>>
       ELSE /\ batch_count' = Saturate(batch_count + 1)
            /\ dstate' = "in_batch"
            /\ summary' = "none"
            /\ \E store_ok \in BOOLEAN :
                  BeginBatch(d_batch_size, 1, [given |-> FALSE, ids |-> {}], <<>>,
                             store_ok, TRUE)
    /\ UNCHANGED <<driver, d_batch_size, max_batches, remaining, total_successful,
                   total_failed>>

\* Lines 193-204: totals, the zero-processed break, the refreshed statistics.
RunPass1AfterBatch ==
    /\ UNCHANGED hvars
    /\ driver = "run_pass_1"
    /\ dstate = "in_batch"
    /\ pc \in {"returned", "raised"}
    /\ IF pc = "raised"
       THEN /\ dstate' = "ended"
            /\ summary' = batch_error
            /\ UNCHANGED <<remaining, total_successful, total_failed>>
       ELSE /\ total_successful' = Saturate(total_successful + batch_result.successful)
            /\ total_failed' = Saturate(total_failed + batch_result.failed)
            /\ IF batch_result.total_processed = 0
               THEN /\ dstate' = "ended"
                    /\ summary' = SummaryStatus(remaining)
                    /\ UNCHANGED remaining
               ELSE /\ remaining' = unprocessed_count(processing)
                    /\ dstate' = "loop"
                    /\ summary' = "none"
    /\ ForgetBatch
    /\ UNCHANGED <<final_hts, processing, driver, d_batch_size, max_batches,
                   batch_count>>

\* resume_pass_1, lines 415-453: statistics, early return; otherwise
\* batch_count is the tuple (0,) and `batch_count += 1` raises TypeError
\* before the first process_batch.
ResumePass1 ==
    /\ UNCHANGED hvars
    /\ pc = "idle"
    /\ driver = "none"
    /\ driver' = "resume_pass_1"
    /\ \E bs \in 1..MaxBatchSize : d_batch_size' = bs
    /\ max_batches' = NoMaxBatches
    /\ remaining' = unprocessed_count(processing)
    /\ batch_count' = 0
    /\ total_successful' = 0
    /\ total_failed' = 0
    /\ dstate' = "ended"
    /\ summary' = IF unprocessed_count(processing) = 0 THEN "complete" ELSE "TypeError"
    /\ UNCHANGED <<final_hts, processing, batchVars>>

\* The driver's caller takes the summary (or the error).
DriverReturn ==
    /\ UNCHANGED hvars
    /\ driver # "none"
    /\ dstate = "ended"
    /\ driver' = "none"
    /\ dstate' = "idle"
    /\ d_batch_size' = 0
    /\ max_batches' = 0
    /\ remaining' = 0
    /\ batch_count' = 0
    /\ total_successful' = 0
    /\ total_failed' = 0
    /\ summary' = "none"
    /\ UNCHANGED <<final_hts, processing, batchVars>>

\* ------------------------------------------------- HTS context service
\* Longest path kept; no path of a map built from MaxEntries entries is longer.
PathCap == MaxEntries + 1

\* HTSContextService._initialize, lines 58-60: load_hts_json filters the
\* entries and raises ValueError on a duplicate code.
LoadHtsJson ==
    /\ hstate = "start"
    /\ LET valid == _filter_valid_entries(raw_items)
       IN IF HasDuplicates(valid)
          THEN /\ hstate' = "load_error"
               /\ hts_items' = <<>>
          ELSE /\ hstate' = "loaded"
               /\ hts_items' = valid
    /\ UNCHANGED <<raw_items, hierarchy_map, parent_finding_stats, orphaned_codes,
                   build_idx, stage_log, query, current_code, hierarchy_path,
                   response, prev_lookup>>
    /\ UNCHANGED <<final_hts, processing, batchVars, driverVars, xvars>>

\* build_hierarchy_map, lines 36-40: the map is initialised.
BeginBuild ==
    /\ hstate = "loaded"
    /\ hierarchy_map' = InitialMap(hts_items)
    /\ build_idx' = 1
    /\ hstate' = IF hts_items = <<>> THEN "ready" ELSE "building"
    /\ UNCHANGED <<raw_items, hts_items, parent_finding_stats, orphaned_codes,
                   stage_log, query, current_code, hierarchy_path, response,
                   prev_lookup>>
    /\ UNCHANGED <<final_hts, processing, batchVars, driverVars, xvars>>

\* build_hierarchy_map, lines 43-59: one iteration of the parent loop.
BuildStep ==
    /\ hstate = "building"
    /\ LET item == hts_items[build_idx]
           hts_code == item.htsno
           found == _find_parent_code(hts_items, build_idx)
           parent_code == found.parent
       IN /\ parent_finding_stats' = CountStage(parent_finding_stats, found.stage)
          /\ stage_log' = Append(stage_log, found.stage)
          /\ IF parent_code # NoParent
             THEN /\ hierarchy_map' = SetParent(hierarchy_map, hts_code, parent_code)
                  /\ UNCHANGED orphaned_codes
             ELSE /\ orphaned_codes' =
                       IF item.indent > 0 THEN Append(orphaned_codes, hts_code)
                       ELSE orphaned_codes
                  /\ UNCHANGED hierarchy_map
    /\ build_idx' = build_idx + 1
    /\ hstate' = IF build_idx = Len(hts_items) THEN "ready" ELSE "building"
    /\ UNCHANGED <<raw_items, hts_items, query, current_code, hierarchy_path,
                   response, prev_lookup>>
    /\ UNCHANGED <<final_hts, processing, batchVars, driverVars, xvars>>

\* get_hts_context, lines 79-92: the membership test and the start of the walk.
ServiceGetHtsContext ==
    /\ hstate \in {"ready", "answered"}
    /\ \E hts_code \in RawCodes \ {CodeEmpty} :
          /\ query' = hts_code
          /\ hierarchy_path' = <<>>
          /\ IF hts_code \notin DOMAIN hierarchy_map
             THEN /\ response' = NotFound
                  /\ current_code' = NoParent
                  /\ hstate' = "answered"
             ELSE /\ response' = NoLookup
                  /\ current_code' = hts_code
                  /\ hstate' = "walking"
    /\ prev_lookup' = IF hstate = "answered"
                      THEN [code |-> query, response |-> response]
                      ELSE prev_lookup
    /\ UNCHANGED <<raw_items, hts_items, hierarchy_map, parent_finding_stats,
                   orphaned_codes, build_idx, stage_log>>
    /\ UNCHANGED <<final_hts, processing, batchVars, driverVars, xvars>>

\* get_hts_context, lines 94-120: one iteration of the while loop; when the
\* parent is None the path is reversed and returned.
WalkStep ==
    /\ hstate = "walking"
    /\ LET node == hierarchy_map[current_code]
           step == [code |-> current_code, indent |-> node.item.indent]
           path == IF Len(hierarchy_path) < PathCap
                   THEN Append(hierarchy_path, step)
                   ELSE hierarchy_path
       IN /\ hierarchy_path' = path
          /\ current_code' = node.parent
          /\ IF node.parent = NoParent
             THEN /\ hstate' = "answered"
                  /\ response' = [found |-> TRUE, hierarchy_path |-> Reverse(path),
                                  error |-> "none"]
             ELSE /\ hstate' = "walking"
                  /\ UNCHANGED response
    /\ UNCHANGED <<raw_items, hts_items, hierarchy_map, parent_finding_stats,
                   orphaned_codes, build_idx, stage_log, query, prev_lookup>>
    /\ UNCHANGED <<final_hts, processing, batchVars, driverVars, xvars>>

\* The service is constructed from a reference file with up to MaxEntries
\* entries; the batch processor is idle.
HInit ==
    /\ BatchInit
    /\ \A i \in Items : final_hts[i] = 1
    /\ raw_items \in SeqsUpTo(RawEntries, MaxEntries)
    /\ hts_items = <<>>
    /\ hstate = "start"
    /\ hierarchy_map = EmptyMap
    /\ parent_finding_stats = NoStats
    /\ orphaned_codes = <<>>
    /\ build_idx = 0
    /\ stage_log = <<>>
    /\ query = NoParent
    /\ current_code = NoParent
    /\ hierarchy_path = <<>>
    /\ response = NoLookup
    /\ prev_lookup = NoPrev
    /\ XUnused

HNext ==
    \/ LoadHtsJson
    \/ BeginBuild
    \/ BuildStep
    \/ ServiceGetHtsContext
    \/ WalkStep

HSpec == HInit /\ [][HNext]_vars

\* A hierarchy map put in place of the built one (hierarchy_map is a plain
\* attribute of the service): any parent pointers among its codes, no code
\* being its own parent, cycles through several codes included.
CycleCodes == {Code7301, Code7301_10, Code7302}
ArbitraryMaps ==
    UNION {{[c \in D |-> [item |-> [htsno |-> c, indent |-> 0],
                          parent |-> f[c], children |-> <<>>]] :
               f \in {g \in [D -> D \cup {NoParent}] : \A c \in D : g[c] # c}} :
           D \in SUBSET CycleCodes \ {{}}}

CycleInit ==
    /\ BatchInit
    /\ \A i \in Items : final_hts[i] = 1
    /\ raw_items = <<>>
    /\ hts_items = <<>>
    /\ hstate = "ready"
    /\ hierarchy_map \in ArbitraryMaps
    /\ parent_finding_stats = NoStats
    /\ orphaned_codes = <<>>
    /\ build_idx = 0
    /\ stage_log = <<>>
    /\ query = NoParent
    /\ current_code = NoParent
    /\ hierarchy_path = <<>>
    /\ response = NoLookup
    /\ prev_lookup = NoPrev
    /\ XUnused

CycleNext ==
    \/ ServiceGetHtsContext
    \/ WalkStep

\* get_hts_context runs to its end once called: each loop iteration is taken.
CycleFairSpec == CycleInit /\ [][CycleNext]_vars /\ WF_vars(CycleNext)

\* load_hts_json called on a file of up to MaxFileEntries entries.
LoadFile ==
    /\ lstate = "start"
    /\ load_result' = load_hts_json(file_entries)
    /\ lstate' = "returned"
    /\ UNCHANGED <<file_entries, pvars, cvars, tvars>>
    /\ UNCHANGED <<final_hts, processing, batchVars, driverVars>>
    /\ UNCHANGED <<raw_items, hts_items, hstate, hierarchy_map, parent_finding_stats,
                   orphaned_codes, build_idx, stage_log, query, current_code,
                   hierarchy_path, response, prev_lookup>>

LInit ==
    /\ BatchInit
    /\ \A i \in Items : final_hts[i] = 1
    /\ HtsUnused
    /\ file_entries \in SeqsUpTo(JsonEntries, MaxFileEntries)
    /\ lstate = "start"
    /\ load_result = NotLoaded
    /\ ParserUnused
    /\ ConvenienceUnused
    /\ ConcurrentUnused

LNext == LoadFile

LSpec == LInit /\ [][LNext]_vars

\* validate_llm_response called on a parsed JSON object.
ValidateLlmResponse ==
    /\ vstate = "start"
    /\ v_validated' = ValidateParsed(v_parsed)
    /\ vstate' = "returned"
    /\ UNCHANGED <<v_parsed, lvars, cvars, tvars>>
    /\ UNCHANGED <<final_hts, processing, batchVars, driverVars>>
    /\ UNCHANGED <<raw_items, hts_items, hstate, hierarchy_map, parent_finding_stats,
                   orphaned_codes, build_idx, stage_log, query, current_code,
                   hierarchy_path, response, prev_lookup>>

VInit ==
    /\ BatchInit
    /\ \A i \in Items : final_hts[i] = 1
    /\ HtsUnused
    /\ LoaderUnused
    /\ ConvenienceUnused
    /\ ConcurrentUnused
    /\ v_parsed \in ParsedResponses
    /\ vstate = "start"
    /\ v_validated = NotValidated

VNext == ValidateLlmResponse

VSpec == VInit /\ [][VNext]_vars

\* call_openai_api_with_retry, lines 224-242: the decorated function is
\* entered for the first attempt of its wrapper.
CallOpenaiApiWithRetry ==
    /\ cstate = "start"
    /\ cstate' = "construct"
    /\ outer_attempt' = 1
    /\ UNCHANGED <<inner_attempt, provider_log, c_sleeps, c_raised>>
    /\ UNCHANGED <<lvars, pvars, tvars>>
    /\ UNCHANGED <<final_hts, processing, batchVars, driverVars>>
    /\ UNCHANGED <<raw_items, hts_items, hstate, hierarchy_map, parent_finding_stats,
                   orphaned_codes, build_idx, stage_log, query, current_code,
                   hierarchy_path, response, prev_lookup>>

\* Line 241: OpenAIClient() raises ValueError without an API key; the wrapper
\* re-raises it (lines 102-105). Otherwise call_api is entered. The key is a
\* configuration constant: a construction that succeeded succeeds again.
ConstructClient ==
    /\ cstate = "construct"
    /\ \E key_ok \in IF outer_attempt = 1 THEN BOOLEAN ELSE {TRUE} :
          IF key_ok
          THEN /\ cstate' = "call_api"
               /\ inner_attempt' = 1
               /\ UNCHANGED c_raised
          ELSE /\ cstate' = "raised"
               /\ c_raised' = "ValueError"
               /\ UNCHANGED inner_attempt
    /\ UNCHANGED <<outer_attempt, provider_log, c_sleeps>>
    /\ UNCHANGED <<lvars, pvars, tvars>>
    /\ UNCHANGED <<final_hts, processing, batchVars, driverVars>>
    /\ UNCHANGED <<raw_items, hts_items, hstate, hierarchy_map, parent_finding_stats,
                   orphaned_codes, build_idx, stage_log, query, current_code,
                   hierarchy_path, response, prev_lookup>>

\* One provider invocation inside call_api and what the two wrappers do with
\* its outcome: the wrapper of call_api (lines 49-105) retries or re-raises,
\* and an error it re-raises reaches the wrapper of the convenience function,
\* which applies the same rule with its own attempt counter.
InvokeProvider ==
    /\ cstate = "call_api"
    /\ \E out \in {"ok"} \cup ProviderErrors :
          /\ provider_log' = Append(provider_log, out)
          /\ IF out = "ok"
             THEN /\ cstate' = "returned"
                  /\ UNCHANGED <<outer_attempt, inner_attempt, c_sleeps, c_raised>>
             ELSE IF ShouldRetry(out, inner_attempt)
             THEN /\ inner_attempt' = inner_attempt + 1
                  /\ c_sleeps' = Append(c_sleeps, Delay(inner_attempt))
                  /\ UNCHANGED <<cstate, outer_attempt, c_raised>>
             ELSE IF ShouldRetry(out, outer_attempt)
             THEN /\ outer_attempt' = outer_attempt + 1
                  /\ c_sleeps' = Append(c_sleeps, Delay(outer_attempt))
                  /\ cstate' = "construct"
                  /\ UNCHANGED <<inner_attempt, c_raised>>
             ELSE /\ cstate' = "raised"
                  /\ c_raised' = out
                  /\ UNCHANGED <<outer_attempt, inner_attempt, c_sleeps>>
    /\ UNCHANGED <<lvars, pvars, tvars>>
    /\ UNCHANGED <<final_hts, processing, batchVars, driverVars>>
    /\ UNCHANGED <<raw_items, hts_items, hstate, hierarchy_map, parent_finding_stats,
                   orphaned_codes, build_idx, stage_log, query, current_code,
                   hierarchy_path, response, prev_lookup>>

CInit ==
    /\ BatchInit
    /\ \A i \in Items : final_hts[i] = 1
    /\ HtsUnused
    /\ LoaderUnused
    /\ ParserUnused
    /\ ConcurrentUnused
    /\ cstate = "start"
    /\ outer_attempt = 0
    /\ inner_attempt = 0
    /\ provider_log = <<>>
    /\ c_sleeps = <<>>
    /\ c_raised = "None"

CNext ==
    \/ CallOpenaiApiWithRetry
    \/ ConstructClient
    \/ InvokeProvider

CSpec == CInit /\ [][CNext]_vars

\* What every step of the two invocations leaves alone.
OthersUnchanged ==
    /\ UNCHANGED <<same_processor, t_codes>>
    /\ UNCHANGED <<lvars, pvars, cvars>>
    /\ UNCHANGED <<final_hts, processing, batchVars, driverVars>>
    /\ UNCHANGED <<raw_items, hts_items, hstate, hierarchy_map, parent_finding_stats,
                   orphaned_codes, build_idx, stage_log, query, current_code,
                   hierarchy_path, response, prev_lookup>>

Running(t) == t_pc[t] \notin {"idle", "done"}
CurrentCode(t) == t_codes[t][t_pos[t]]
\* After the lookup of a product: the next product, or the statistics.
NextLookup(t) ==
    IF t_pos[t] = Len(t_codes[t])
    THEN /\ t_pc' = [t_pc EXCEPT ![t] = "report"]
         /\ UNCHANGED t_pos
    ELSE /\ t_pc' = [t_pc EXCEPT ![t] = "check"]
         /\ t_pos' = [t_pos EXCEPT ![t] = @ + 1]

\* process_batch, lines 80-82: the cache and the counters of the processor
\* are cleared.
ClearForBatch(t) ==
    /\ t_pc[t] = "idle"
    /\ LET q == Processor(same_processor, t)
       IN /\ p_cache' = [p_cache EXCEPT ![q] = EmptyCache]
          /\ p_hits' = [p_hits EXCEPT ![q] = 0]
          /\ p_misses' = [p_misses EXCEPT ![q] = 0]
    /\ t_pc' = [t_pc EXCEPT ![t] = "check"]
    /\ t_pos' = [t_pos EXCEPT ![t] = 1]
    /\ overlapped' = (overlapped \/ \E u \in Invocations \ {t} : Running(u))
    /\ UNCHANGED <<t_reg, t_lookups, t_own_hits, t_foreign, t_report>>
    /\ OthersUnchanged

\* _get_hts_context, line 328: the membership test.
CheckCache(t) ==
    /\ t_pc[t] = "check"
    /\ LET q == Processor(same_processor, t)
       IN t_pc' = [t_pc EXCEPT ![t] =
                      IF p_cache[q][CurrentCode(t)] # NoEntry
                      THEN "hit_read" ELSE "miss_read"]
    /\ t_lookups' = [t_lookups EXCEPT ![t] = @ + 1]
    /\ UNCHANGED <<p_cache, p_hits, p_misses, t_pos, t_reg, t_own_hits, t_foreign,
                   t_report, overlapped>>
    /\ OthersUnchanged

\* Lines 329 and 334: `+= 1` reads the counter of the processor ...
ReadCounter(t) ==
    /\ t_pc[t] \in {"hit_read", "miss_read"}
    /\ LET q == Processor(same_processor, t)
       IN t_reg' = [t_reg EXCEPT ![t] =
                       IF t_pc[t] = "hit_read" THEN p_hits[q] ELSE p_misses[q]]
    /\ t_pc' = [t_pc EXCEPT ![t] =
                   IF t_pc[t] = "hit_read" THEN "hit_write" ELSE "miss_write"]
    /\ UNCHANGED <<p_cache, p_hits, p_misses, t_pos, t_lookups, t_own_hits,
                   t_foreign, t_report, overlapped>>
    /\ OthersUnchanged

\* ... and stores the value read plus one.
WriteCounter(t) ==
    /\ t_pc[t] \in {"hit_write", "miss_write"}
    /\ LET q == Processor(same_processor, t)
       IN IF t_pc[t] = "hit_write"
          THEN /\ p_hits' = [p_hits EXCEPT ![q] = t_reg[t] + 1]
               /\ UNCHANGED p_misses
          ELSE /\ p_misses' = [p_misses EXCEPT ![q] = t_reg[t] + 1]
               /\ UNCHANGED p_hits
    /\ t_pc' = [t_pc EXCEPT ![t] =
                   IF t_pc[t] = "hit_write" THEN "hit_return" ELSE "fetch"]
    /\ UNCHANGED <<p_cache, t_pos, t_reg, t_lookups, t_own_hits, t_foreign,
                   t_report, overlapped>>
    /\ OthersUnchanged

\* Line 331: the cached value is returned; KeyError when the entry is gone
\* (the product fails and the loop goes on).
ReturnCached(t) ==
    /\ t_pc[t] = "hit_return"
    /\ LET entry == p_cache[Processor(same_processor, t)][CurrentCode(t)]
       IN /\ t_own_hits' = [t_own_hits EXCEPT ![t] =
                               IF entry.by = t THEN @ + 1 ELSE @]
          /\ t_foreign' = [t_foreign EXCEPT ![t] =
                              @ \/ (entry # NoEntry /\ entry.by # t)]
    /\ NextLookup(t)
    /\ UNCHANGED <<p_cache, p_hits, p_misses, t_reg, t_lookups, t_report, overlapped>>
    /\ OthersUnchanged

\* Lines 337-352: the lookup service is called; a dictionary is cached.
FetchAndCache(t) ==
    /\ t_pc[t] = "fetch"
    /\ \E out \in LookupOutcomes :
          p_cache' =
             IF out.kind = "value"
             THEN [p_cache EXCEPT ![Processor(same_processor, t)][CurrentCode(t)] =
                      [ctx |-> out.v, by |-> t]]
             ELSE p_cache
    /\ NextLookup(t)
    /\ UNCHANGED <<p_hits, p_misses, t_reg, t_lookups, t_own_hits, t_foreign,
                   t_report, overlapped>>
    /\ OthersUnchanged

\* Line 192: total_lookups = self._cache_hits + self._cache_misses.
ReportLookups(t) ==
    /\ t_pc[t] = "report"
    /\ LET q == Processor(same_processor, t)
       IN t_report' = [t_report EXCEPT ![t] = p_hits[q] + p_misses[q]]
    /\ t_pc' = [t_pc EXCEPT ![t] = "done"]
    /\ UNCHANGED <<p_cache, p_hits, p_misses, t_pos, t_reg, t_lookups, t_own_hits,
                   t_foreign, overlapped>>
    /\ OthersUnchanged

\* Two invocations, each with one to MaxLookups products, on one processor
\* or on two.
ProductCodes == SeqsUpTo(Codes, MaxLookups) \ {<<>>}
TInit ==
    /\ BatchInit
    /\ \A i \in Items : final_hts[i] = 1
    /\ HtsUnused
    /\ LoaderUnused
    /\ ParserUnused
    /\ ConvenienceUnused
    /\ same_processor \in BOOLEAN
    /\ p_cache = [q \in Processors |-> EmptyCache]
    /\ p_hits = [q \in Processors |-> 0]
    /\ p_misses = [q \in Processors |-> 0]
    /\ t_pc = [t \in Invocations |-> "idle"]
    /\ t_codes \in [Invocations -> ProductCodes]
    /\ t_pos = [t \in Invocations |-> 0]
    /\ t_reg = [t \in Invocations |-> 0]
    /\ t_lookups = [t \in Invocations |-> 0]
    /\ t_own_hits = [t \in Invocations |-> 0]
    /\ t_foreign = [t \in Invocations |-> FALSE]
    /\ t_report = [t \in Invocations |-> NoReport]
    /\ overlapped = FALSE

TNext ==
    \E t \in Invocations :
        \/ ClearForBatch(t)
        \/ CheckCache(t)
        \/ ReadCounter(t)
        \/ WriteCounter(t)
        \/ ReturnCached(t)
        \/ FetchAndCache(t)
        \/ ReportLookups(t)

TSpec == TInit /\ [][TNext]_vars

Next ==
    \/ ProcessBatch
    \/ GetHtsContext
    \/ CallApiAttempt
    \/ ParseAndPersist
    \/ FinishBatch
    \/ ReturnToCaller
    \/ RunPass1Start
    \/ RunPass1Loop
    \/ RunPass1AfterBatch
    \/ ResumePass1
    \/ DriverReturn

Spec == Init /\ [][Next]_vars

\* The same program under weak fairness: some step is always taken, which the
\* sequential, single-threaded execution guarantees. The provider, the lookup
\* service and the store stay free to fail at every call.
FairSpec == Init /\ [][Next]_vars /\ WF_vars(Next)

\* ----------------------------------------------------------------- claims
\* call_api has just raised for the product whose log entry is the last one.
JustRaised == pc \in {"lookup", "assemble"} /\ api_calls > 0
RaisedError == item_log[Len(item_log)].exception
SumLevels(dist) == dist["Low"] + dist["Medium"] + dist["High"]
LoggedCodes == {item_log[k].code : k \in 1..Len(item_log)}
Misses == {k \in 1..Len(item_log) : item_log[k].lookup = "miss"}
Hits == {k \in 1..Len(item_log) : item_log[k].lookup = "hit"}

\* C1: an exception raised while a product is processed never leaves
\* process_batch; the product gets a failure outcome carrying the exception's
\* message, and every later product of the list is still processed.
C1_FailureIsolated ==
    /\ pc = "raised" => (products = <<>> /\ item_log = <<>>)
    /\ Len(results) <= Len(item_log)
    /\ \A k \in 1..Len(results) :
          item_log[k].exception # "None" =>
             results[k] = FailureResult(products[k], item_log[k].exception)
    /\ pc \in {"assemble", "returned"} =>
          (Len(results) = Len(products) /\ Len(item_log) = Len(products))

C1_Witness ==
    /\ pc = "returned"
    /\ Len(results) = 2
    /\ ~results[1].success
    /\ results[2].success

\* C2: the resume operation (run_pass_1 without max_batches) terminates
\* whatever the store and the provider do, products that fail on every attempt
\* included: once its loop has been entered, it ends and returns its summary.
C2_ResumeTerminates ==
    (driver = "run_pass_1" /\ max_batches = NoMaxBatches /\ dstate = "loop")
        ~> (dstate = "ended")

\* C3: when every invocation fails with a retryable error, the provider is
\* invoked RETRY_MAX_ATTEMPTS times, failed attempt k < RETRY_MAX_ATTEMPTS is
\* followed by a sleep of RETRY_BASE_DELAY * RETRY_EXPONENTIAL_BASE^(k-1), no
\* sleep follows the last attempt, and the last error is raised.
ExpectedSleeps(n) ==
    [k \in 1..n |-> RETRY_BASE_DELAY * (RETRY_EXPONENTIAL_BASE ^ (k - 1))]

C3_RetryExhaustion ==
    /\ pc = "api" =>
          /\ attempt \in 1..RETRY_MAX_ATTEMPTS
          /\ api_calls = attempt - 1
          /\ api_sleeps = ExpectedSleeps(attempt - 1)
    /\ (JustRaised /\ RaisedError \in RetryableErrors) =>
          /\ api_calls = RETRY_MAX_ATTEMPTS
          /\ api_sleeps = ExpectedSleeps(RETRY_MAX_ATTEMPTS - 1)
          /\ last_exception = RaisedError

C3_Witness ==
    /\ JustRaised
    /\ RaisedError = "APITimeoutError"
    /\ api_calls = RETRY_MAX_ATTEMPTS

\* C4: an invocation that fails with a non-retryable error makes call_api raise
\* that error at once: no sleep follows it and the provider is not invoked
\* again, whatever the attempt number.
C4_FatalRaisesImmediately ==
    /\ pc = "api" => last_exception \notin FatalErrors
    /\ (JustRaised /\ RaisedError \in FatalErrors) =>
          /\ api_calls = attempt
          /\ Len(api_sleeps) = api_calls - 1
          /\ results[Len(results)].error = RaisedError

C4_Witness ==
    /\ JustRaised
    /\ RaisedError = "AuthenticationError"
    /\ api_calls = 2

\* C5: in a batch in which the lookup service returned a non-null result for
\* every code, the service is called once per distinct code: misses = distinct
\* codes, hits = lookups - distinct codes, one cache entry per distinct code.
C5_OneLookupPerCode ==
    (pc # "idle" /\ \A k \in 1..Len(item_log) : item_log[k].outcome = "value") =>
        /\ Cardinality(Misses) = Cardinality(LoggedCodes)
        /\ cache_misses = Cardinality(LoggedCodes)
        /\ cache_hits = Len(item_log) - Cardinality(LoggedCodes)
        /\ {c \in Codes : hts_context_cache[c] # NoContext} = LoggedCodes

C5_Witness ==
    /\ pc = "returned"
    /\ \A k \in 1..Len(item_log) : item_log[k].outcome = "value"
    /\ cache_hits >= 1
    /\ cache_misses >= 1

\* C6: the cache is emptied and the counters zeroed when a batch starts, so a
\* hit only returns a value the lookup service returned during this batch.
C6_CacheScopedToBatch ==
    pc # "idle" =>
        /\ cache_hits + cache_misses = Len(item_log)
        /\ \A k \in Hits :
              \E j \in Misses :
                 /\ j < k
                 /\ item_log[j].code = item_log[k].code
                 /\ item_log[j].outcome = "value"
                 /\ item_log[j].ctx = item_log[k].ctx
        /\ \A c \in Codes :
              hts_context_cache[c] # NoContext =>
                 \E j \in Misses : /\ item_log[j].code = c
                                   /\ item_log[j].ctx = hts_context_cache[c]

\* A hit for a product that an earlier batch of the same processor persisted.
C6_Witness ==
    /\ pc = "api"
    /\ idx = 2
    /\ item_log[2].lookup = "hit"
    /\ processing[products[2]].processed

\* C7 as claimed: an exception of the lookup service gives the product a
\* failure outcome.
C7_LookupErrorFails ==
    \A k \in 1..Len(results) : item_log[k].outcome = "raise" => ~results[k].success

\* C7 amended: _get_hts_context catches the exception and returns None (a miss
\* is counted, nothing is cached); the product goes on without context and
\* fails only if a later step raises, with that step's message.
C7_LookupErrorSwallowed ==
    /\ \A k \in 1..Len(item_log) :
          item_log[k].outcome = "raise" =>
             /\ item_log[k].lookup = "miss"
             /\ item_log[k].ctx = NoContext
             /\ item_log[k].exception # LookupError
    /\ \A k \in 1..Len(results) :
          item_log[k].outcome = "raise" =>
             /\ results[k].success <=> item_log[k].exception = "None"
             /\ results[k].error = item_log[k].exception
    /\ (pc = "api" /\ item_log[idx].outcome = "raise") =>
          (hts_context = NoContext /\ hts_context_cache[item_log[idx].code] = NoContext)

C7_Witness ==
    \E k \in 1..Len(results) : item_log[k].outcome = "raise" /\ results[k].success

C9_SuccessOnlyIfPersisted ==
    /\ \A k \in 1..Len(results) :
          /\ results[k].success => item_log[k].update = "True"
          /\ item_log[k].update \in {"False", "raise"} =>
                (~results[k].success /\ results[k].error = UpdateError)
    /\ pc \in {"lookup", "assemble"} =>
          /\ successful = Cardinality({k \in 1..Len(item_log) : item_log[k].update = "True"})
          /\ SumLevels(confidence_distribution) = successful

C9_Witness ==
    /\ pc = "returned"
    /\ \E k \in 1..Len(results) : item_log[k].update = "False"
    /\ \E k \in 1..Len(results) : item_log[k].update = "True"

\* C10: a returned BatchResult is consistent: total_processed is the number of
\* loaded products, one outcome per product in load order, successful + failed
\* = total_processed, successful counts the success outcomes, and the
\* confidence tally sums to successful.
C10_ResultConsistent ==
    pc = "returned" =>
        LET r == batch_result
        IN /\ r.total_processed = Len(products)
           /\ Len(r.results) = Len(products)
           /\ \A k \in 1..Len(products) : r.results[k].item_id = products[k]
           /\ r.successful + r.failed = r.total_processed
           /\ r.successful =
                Cardinality({k \in 1..Len(r.results) : r.results[k].success})
           /\ SumLevels(r.confidence_distribution) = r.successful

C10_Witness ==
    /\ pc = "returned"
    /\ batch_result.successful >= 1
    /\ batch_result.failed >= 1

\* C11: process_batch with pass_number >= 2 and no selection (None or empty)
\* returns the empty report without querying the product store, loading rules,
\* calling the lookup service or the provider, or persisting anything.
C11_NoSelectionEmptyReport ==
    (pc # "idle" /\ pass_number >= 2 /\ (~load_log.given \/ load_log.ids = {})) =>
        /\ pc = "returned"
        /\ batch_result = _create_empty_batch_result(pass_number)
        /\ batch_result.total_processed = 0
        /\ batch_result.successful = 0
        /\ batch_result.failed = 0
        /\ batch_result.results = <<>>
        /\ load_log.store = "none"
        /\ load_log.rules = "none"
        /\ products = <<>>
        /\ rules = <<>>
        /\ item_log = <<>>
        /\ cache_hits + cache_misses = 0
        /\ api_calls = 0

C11_Witness ==
    /\ pc = "returned"
    /\ pass_number = 2
    /\ ~load_log.given
    /\ unprocessed_count(processing) > 0

C13_RulesPersisted ==
    \A k \in 1..Len(results) :
        item_log[k].exception \notin ProviderErrors \cup {ExtractError, ValidationError} =>
            /\ item_log[k].update # "none"
            /\ item_log[k].update = "True" =>
                  processing[products[k]] =
                     [processed |-> TRUE, pass |-> pass_number, rules |-> rules]

\* -------------------------------------------- claims on the HTS hierarchy
Built == hstate \in {"ready", "walking", "answered"}
\* Position in hts_items of the entry with this code.
PosOf(code) == CHOOSE i \in 1..Len(hts_items) : hts_items[i].htsno = code
ParentOf(k) == hierarchy_map[hts_items[k].htsno].parent
\* Codes of the entries one indent above entry k that are prefixes of its code.
PrefixCandidates(k) ==
    {hts_items[j].htsno : j \in {i \in 1..Len(hts_items) :
        /\ hts_items[i].indent = hts_items[k].indent - 1
        /\ StartsWith(hts_items[k].htsno, hts_items[i].htsno)}}
MaxIndentPresent ==
    CHOOSE m \in {hts_items[i].indent : i \in 1..Len(hts_items)} :
        \A i \in 1..Len(hts_items) : hts_items[i].indent <= m
\* The code reached from c after at most n parent steps.
RECURSIVE Climb(_, _)
Climb(c, n) ==
    IF n = 0 \/ hierarchy_map[c].parent = NoParent THEN c
    ELSE Climb(hierarchy_map[c].parent, n - 1)

C17_ParentEarlier ==
    \A k \in 1..Len(stage_log) :
        ParentOf(k) # NoParent => PosOf(ParentOf(k)) < k

\* C17 amended: a parent resolved by one of the two fallback stages stands at
\* an earlier position; a parent resolved by prefix matching may stand
\* anywhere and is exactly one indent above; in every stage the parent's
\* indent is lower than the entry's, so no cycle is built.
C17_ParentLowerIndent ==
    \A k \in 1..Len(stage_log) :
        LET e == hts_items[k]
        IN IF ParentOf(k) = NoParent
           THEN stage_log[k] \in {"root", "failed"}
           ELSE LET p == hts_items[PosOf(ParentOf(k))]
                IN /\ p.indent < e.indent
                   /\ stage_log[k] \in {"fallback_prefix", "fallback_chapter"} =>
                         PosOf(ParentOf(k)) < k
                   /\ stage_log[k] = "prefix" => p.indent = e.indent - 1
                   /\ stage_log[k] \in {"prefix", "fallback_prefix", "fallback_chapter"}

\* A prefix-matched parent after the entry, and a fallback parent before it.
C17_Witness ==
    /\ hstate = "ready"
    /\ \E k \in 1..Len(hts_items) :
          stage_log[k] = "prefix" /\ PosOf(ParentOf(k)) > k
    /\ \E k \in 1..Len(hts_items) : stage_log[k] = "fallback_chapter"

\* C18: for a code of the map get_hts_context returns found = true and the
\* path from a node without parent down to the queried code, each element the
\* parent of the next; for an indent-0 code the path is that code alone.
C18_PathRootToCode ==
    (hstate = "answered" /\ query \in DOMAIN hierarchy_map) =>
        LET path == response.hierarchy_path
        IN /\ response.found
           /\ response.error = "none"
           /\ Len(path) >= 1
           /\ path[Len(path)].code = query
           /\ hierarchy_map[path[1].code].parent = NoParent
           /\ \A i \in 1..(Len(path) - 1) :
                 hierarchy_map[path[i + 1].code].parent = path[i].code
           /\ \A i \in 1..Len(path) :
                 path[i].indent = hierarchy_map[path[i].code].item.indent
           /\ hierarchy_map[query].item.indent = 0 =>
                 path = <<[code |-> query, indent |-> 0]>>

C18_Witness ==
    /\ hstate = "answered"
    /\ response.found
    /\ Len(response.hierarchy_path) = 3

\* C19: a lookup of a code absent from the map returns found = false, an
\* empty path and an error message; lookups leave the map and the builder's
\* statistics unchanged; a repeated lookup returns the same result.
C19_MissIsAnswer ==
    /\ [](/\ (hstate = "answered" /\ query \notin DOMAIN hierarchy_map) =>
                /\ ~response.found
                /\ response.hierarchy_path = <<>>
                /\ response.error = "HTS code not found in reference data"
          /\ (hstate = "answered" /\ prev_lookup # NoPrev
                /\ prev_lookup.code = query) =>
                response = prev_lookup.response)
    /\ [][(hstate \in {"ready", "walking", "answered"}) =>
             (UNCHANGED <<hierarchy_map, parent_finding_stats, orphaned_codes,
                          hts_items>>)]_vars

\* The same absent code looked up twice in a non-empty map.
C19_Witness ==
    /\ hstate = "answered"
    /\ prev_lookup.code = query
    /\ query \notin DOMAIN hierarchy_map
    /\ hierarchy_map # EmptyMap

\* C20: when the map holds a cycle of parent pointers reachable from the
\* queried code, get_hts_context detects the revisited code and fails after
\* finitely many steps: a started walk always ends.
C20_CycleDetected == (hstate = "walking") ~> (hstate # "walking")

\* ------------------------------------- further claims on the HTS hierarchy
Processed == 1..Len(stage_log)
\* Positions before k of the entries with a lower indent whose code is a
\* prefix of entry k's code, and of those sharing its chapter.
LowerPrefixBefore(k) ==
    {j \in 1..(k - 1) : /\ hts_items[j].indent < hts_items[k].indent
                        /\ StartsWith(hts_items[k].htsno, hts_items[j].htsno)}
LowerChapterBefore(k) ==
    {j \in 1..(k - 1) : /\ hts_items[j].indent < hts_items[k].indent
                        /\ Chapter(hts_items[k].htsno) = Chapter(hts_items[j].htsno)}
Last(S) == CHOOSE m \in S : \A x \in S : x <= m
StageCount(stages) == Cardinality({k \in Processed : stage_log[k] \in stages})
Unresolved(k) == ParentOf(k) = NoParent

\* C23: for an entry with indent > 0 and no prefix candidate one indent above,
\* the parent is the nearest preceding entry with a lower indent whose code is
\* a prefix of the entry's code, counted as a fallback match; the same-chapter
\* stage answers only when there is no such entry.
C23_FallbackPrefixNearest ==
    /\ \A k \in Processed :
          (hts_items[k].indent > 0 /\ PrefixCandidates(k) = {}) =>
             /\ LowerPrefixBefore(k) # {} =>
                   /\ stage_log[k] = "fallback_prefix"
                   /\ ParentOf(k) = hts_items[Last(LowerPrefixBefore(k))].htsno
             /\ stage_log[k] = "fallback_chapter" => LowerPrefixBefore(k) = {}
    /\ parent_finding_stats.fallback_matches =
          StageCount({"fallback_prefix", "fallback_chapter"})

\* Two preceding lower-indent prefixes, the nearer one chosen.
C23_Witness ==
    /\ hstate = "ready"
    /\ \E k \in 1..Len(hts_items) :
          /\ hts_items[k].indent > 0
          /\ PrefixCandidates(k) = {}
          /\ Cardinality(LowerPrefixBefore(k)) = 2
          /\ stage_log[k] = "fallback_prefix"
          /\ parent_finding_stats.fallback_matches >= 1

NonNegativeIndents == \A i \in 1..Len(hts_items) : hts_items[i].indent >= 0
OrphansExact ==
    /\ \A i, j \in 1..Len(orphaned_codes) :
          orphaned_codes[i] = orphaned_codes[j] => i = j
    /\ Range(orphaned_codes) =
          {hts_items[k].htsno : k \in {i \in Processed :
              hts_items[i].indent > 0 /\ Unresolved(i)}}
    /\ \A k \in Processed :
          hts_items[k].indent = 0 => hts_items[k].htsno \notin Range(orphaned_codes)
NothingToFind(k) ==
    /\ PrefixCandidates(k) = {}
    /\ LowerPrefixBefore(k) = {}
    /\ LowerChapterBefore(k) = {}

\* C24: orphaned_codes holds, each once, exactly the entries with indent > 0
\* whose parent is unset; an entry is left without a parent only if no entry
\* one indent above is a prefix of its code and no preceding lower-indent
\* entry is a prefix of its code or shares its chapter; indent-0 entries are
\* never orphaned.
C24_OrphansLiteral ==
    /\ OrphansExact
    /\ \A k \in Processed : Unresolved(k) => NothingToFind(k)

\* C24 amended: the condition for being left without a parent holds for the
\* entries whose indent is not 0, and for every entry when no indent in the
\* list is negative; an indent-0 entry never has a parent, whatever the other
\* entries are.
C24_OrphansExactNonRoot ==
    /\ OrphansExact
    /\ \A k \in Processed :
          /\ (hts_items[k].indent # 0 /\ Unresolved(k)) => NothingToFind(k)
          /\ hts_items[k].indent = 0 => Unresolved(k)
          /\ (NonNegativeIndents /\ Unresolved(k)) => NothingToFind(k)

\* An orphan, and an indent-0 entry that has a prefix of negative indent.
C24_Witness ==
    /\ hstate = "ready"
    /\ Len(orphaned_codes) >= 1
    /\ \E k \in 1..Len(hts_items) :
          hts_items[k].indent = 0 /\ PrefixCandidates(k) # {}

Resolved == {k \in Processed : ~Unresolved(k)}
CounterSum ==
    parent_finding_stats.prefix_matches + parent_finding_stats.fallback_matches
        + parent_finding_stats.failed

\* C25: prefix_matches + fallback_matches is the number of entries with a
\* resolved parent, failed is the number of orphaned codes, the three counters
\* sum to the number of entries with indent > 0, and indent-0 entries change
\* no counter.
C25_CountersLiteral ==
    /\ parent_finding_stats.prefix_matches + parent_finding_stats.fallback_matches
          = Cardinality(Resolved)
    /\ parent_finding_stats.failed = Len(orphaned_codes)
    /\ CounterSum = Cardinality({k \in Processed : hts_items[k].indent > 0})

\* C25 amended: failed counts every unresolved entry whose indent is not 0,
\* the orphaned codes and the unresolved entries of negative indent, which are
\* not listed as orphaned; the counters sum to the number of entries whose
\* indent is not 0. When no indent in the list is negative, failed is the
\* number of orphaned codes and the sum is the number of entries with
\* indent > 0.
C25_CountersNonRoot ==
    /\ parent_finding_stats.prefix_matches + parent_finding_stats.fallback_matches
          = Cardinality(Resolved)
    /\ parent_finding_stats.failed =
          Cardinality({k \in Processed : hts_items[k].indent # 0 /\ Unresolved(k)})
    /\ parent_finding_stats.failed =
          Len(orphaned_codes)
             + Cardinality({k \in Processed : hts_items[k].indent < 0 /\ Unresolved(k)})
    /\ CounterSum = Cardinality({k \in Processed : hts_items[k].indent # 0})
    /\ parent_finding_stats.prefix_matches = StageCount({"prefix"})
    /\ StageCount({"root"}) = Cardinality({k \in Processed : hts_items[k].indent = 0})
    /\ NonNegativeIndents =>
          /\ parent_finding_stats.failed = Len(orphaned_codes)
          /\ CounterSum = Cardinality({k \in Processed : hts_items[k].indent > 0})

\* One entry of every kind: a root, a resolved one, an unresolved negative one.
C25_Witness ==
    /\ hstate = "ready"
    /\ Len(hts_items) = MaxEntries
    /\ \E k \in 1..Len(hts_items) : hts_items[k].indent = 0
    /\ \E k \in 1..Len(hts_items) : hts_items[k].indent < 0 /\ Unresolved(k)
    /\ Cardinality(Resolved) = 1

\* The code reached from c after exactly n parent steps, NoParent when the
\* chain ends before.
RECURSIVE Ancestor(_, _)
Ancestor(c, n) ==
    IF n = 0 \/ c = NoParent THEN c ELSE Ancestor(hierarchy_map[c].parent, n - 1)

\* C26: every resolved parent has an indent strictly lower than its child's,
\* exactly one lower for a prefix match, so no code is its own ancestor.
C26_ParentRelationAcyclic ==
    /\ \A k \in Resolved :
          LET p == hts_items[PosOf(ParentOf(k))]
          IN /\ p.indent < hts_items[k].indent
             /\ stage_log[k] = "prefix" => p.indent = hts_items[k].indent - 1
    /\ \A c \in DOMAIN hierarchy_map :
          \A n \in 1..Len(hts_items) : Ancestor(c, n) # c

\* A chain of three codes, and a fallback parent more than one indent above.
C26_Witness ==
    /\ hstate = "ready"
    /\ \E c \in DOMAIN hierarchy_map : Ancestor(c, 2) # NoParent
    /\ \E k \in Resolved :
          hts_items[PosOf(ParentOf(k))].indent < hts_items[k].indent - 1

\* -------------------------------------------------- claims on the loader
\* An entry lacks a required field or has a code or description that is
\* not text.
Malformed(e) ==
    \/ e.htsno_kind # "str"
    \/ e.indent_kind = "missing"
    \/ e.description_kind # "str"

\* C21: load_hts_json fails whenever an entry of the source list is missing
\* its code, its indent or its description, or has a code or description that
\* is not a string; no such entry is dropped or accepted without an error.
C21_MalformedEntryFails ==
    (lstate = "returned" /\ \E i \in 1..Len(file_entries) : Malformed(file_entries[i]))
        => load_result.error # "None"


\* ------------------------------------------ claims on the response parser
\* The text is a number with two decimals: d.dd, with an optional sign.
TwoDecimals(str) ==
    LET body == IF str # <<>> /\ Head(str) = "-" THEN Tail(str) ELSE str
    IN /\ Len(body) = 4
       /\ body[2] = "."
       /\ \A i \in {1, 3, 4} : \E d \in 1..10 : DigitChars[d] = body[i]
DigitValue(ch) == (CHOOSE d \in 1..10 : DigitChars[d] = ch) - 1
\* Value of a two-decimal text, in hundredths.
Hundredths(str) ==
    LET neg == Head(str) = "-"
        body == IF neg THEN Tail(str) ELSE str
        v == 100 * DigitValue(body[1]) + 10 * DigitValue(body[3]) + DigitValue(body[4])
    IN IF neg THEN 0 - v ELSE v
NonEmptyField(f) == f.kind = "other" \/ (f.kind = "text" /\ Strip(f.text) # <<>>)
\* The input cannot be brought to the shape of a validated result.
Unfixable(p) ==
    \/ ~NonEmptyField(p.enhanced_description) \/ p.enhanced_description.kind # "text"
    \/ p.confidence_score.kind \in {"missing", "bad"}
    \/ p.confidence_level = "missing"
    \/ p.extracted_features.kind # "dict"
    \/ ~NonEmptyField(p.extracted_features.product)

C27_ConvenienceBounded ==
    /\ Len(provider_log) <= RETRY_MAX_ATTEMPTS
    /\ (cstate = "raised" /\ provider_log # <<>>) =>
          c_raised = provider_log[Len(provider_log)]

\* ----------------------------------------------------- claims on run_pass_1
\* C28: run_pass_1 called with an integer max_batches >= 0 invokes
\* process_batch at most max_batches times, and its summary says "complete"
\* only if the store holds no unprocessed product when the loop has ended,
\* otherwise "partial".
C28_MaxBatchesRespected ==
    (driver = "run_pass_1") =>
        /\ (max_batches # NoMaxBatches) => batch_count <= max_batches
        /\ (dstate = "ended" /\ summary = "complete") =>
              unprocessed_count(processing) = 0
        /\ (dstate = "ended" /\ summary \in {"complete", "partial"}
              /\ unprocessed_count(processing) # 0) => summary = "partial"

\* ------------------------------------------- claims on failed products
\* The outcome just recorded is a failure that happened before the store
\* update was reached.
FailedBeforePersist(res) == ~res.success /\ res.error # UpdateError

\* C29: for a product whose processing fails before the persistence step
\* (lookup, provider, extraction, validation or flattening error) no
\* update_processing_results call is made, the processing_results table is
\* left as it was, and a product that was unprocessed stays unprocessed.
C29_FailureLeavesStoreAlone ==
    /\ [](\A k \in 1..Len(results) :
             FailedBeforePersist(results[k]) => item_log[k].update = "none")
    /\ [][(Len(results') = Len(results) + 1
             /\ FailedBeforePersist(results'[Len(results')]))
            => (processing' = processing)]_vars
    /\ [][\A i \in Items : (processing'[i] # processing[i]) =>
             (/\ pc = "parse"
              /\ products[idx] = i
              /\ item_log'[Len(item_log')].update = "True")]_vars

\* A batch returned with a product that failed on validation and is still
\* unprocessed, next to one that was persisted.
C29_Witness ==
    /\ pc = "returned"
    /\ \E k \in 1..Len(results) :
          /\ results[k].error = ValidationError
          /\ ~processing[results[k].item_id].processed
    /\ \E k \in 1..Len(results) : results[k].success

\* -------------------------------------------- claims on overlapping batches
Isolated(t) ==
    /\ ~t_foreign[t]
    /\ t_pc[t] = "done" => t_report[t] = t_lookups[t]

\* C30: when two process_batch invocations overlap, neither touches the
\* cache entries or the hit and miss counters of the other: the hits + misses
\* of each invocation equal the number of lookups it performed itself, and
\* every hit returns a value that invocation fetched.
C30_InvocationsIsolated == \A t \in Invocations : Isolated(t)

\* C30 amended: this holds for invocations on different BatchProcessor
\* instances.
C30_IsolatedPerProcessor ==
    ~same_processor => \A t \in Invocations : Isolated(t)

\* Two invocations on two processors that ran at the same time, each ended
\* with a hit on a value it fetched.
C30_Witness ==
    /\ ~same_processor
    /\ overlapped
    /\ \A t \in Invocations : t_pc[t] = "done" /\ t_own_hits[t] >= 1

====
